---- MODULE Spec2Model ----
(***************************************************************************)
(* Schema resolution and projection engine of go-avro/avro.                *)
(*                                                                         *)
(* Two revisions of the projector live in the sources:                     *)
(*   "newProjection" - src/datum_projector.go (closures, panics on error)  *)
(*   "newProjector"  - src/unnamed/part_002, lines 314-1009 (projector     *)
(*                     interface, errors returned from the constructor)    *)
(* The variable impl says which one a behaviour runs.                      *)
(***************************************************************************)
EXTENDS Integers, Sequences, FiniteSets, TLC

VARIABLES impl, readerSchema, writerSchema, compiled, pc, dec, datum, target, f, log, result,
          calls, canon, fingerprints, parser, recursion, heap

vars ==
  <<impl, readerSchema, writerSchema, compiled, pc, dec, datum, target, f, log, result, calls,
    canon, fingerprints, parser, recursion, heap>>

(***************************************************************************)
(* Bounds of the model.                                                    *)
(***************************************************************************)
\* longest arbitrary (not necessarily well-formed) decoder input, in bytes
MaxLen == 2
\* largest integer datum a writer value holds (the smallest is -1)
MaxInt == 1
\* most calls of Fingerprint on one schema node
MaxFingerprintCalls == 2
\* most calls of ParseSchemaWithRegistry with one registry
MaxParses == 2
\* the nested calls on one record that the goroutine stack has room for
MaxStack == 3
\* most targets that Reads of one projector fill
MaxTargets == 2

(***************************************************************************)
(* Generic helpers.                                                        *)
(***************************************************************************)
Range(s) == {s[i] : i \in DOMAIN s}

Min(S) == CHOOSE x \in S : \A y \in S : x <= y

\* the map m with key k set to v (Go: m[k] = v)
MapSet(m, k, v) == [x \in (DOMAIN m) \cup {k} |-> IF x = k THEN v ELSE m[x]]

\* the map m without key k (Go: delete(m, k))
MapDelete(m, k) == [x \in (DOMAIN m) \ {k} |-> m[x]]

EmptyMap == [x \in {} |-> 0]

\* K applied to the result r of a call: r, err := call(); K
Then(r, K(_)) == K(r)

(***************************************************************************)
(* Schema nodes (src/schema.go).  The field "type" is the constant that    *)
(* Type() returns.                                                         *)
(***************************************************************************)
Prim(t) == [type |-> t]

PrimitiveTypes == {"null", "boolean", "int", "long", "float", "double", "bytes", "string"}

FixedSchema(n, sz) == [type |-> "fixed", name |-> n, size |-> sz]

EnumSchema(n, syms) == [type |-> "enum", name |-> n, symbols |-> syms]

ArraySchema(it) == [type |-> "array", items |-> it]

MapSchema(vs) == [type |-> "map", values |-> vs]

UnionSchema(ts) == [type |-> "union", types |-> ts]

RecordSchema(n, fs) == [type |-> "record", name |-> n, fields |-> fs]

\* a reference by name to a record defined before (schema.go:647-661)
RecursiveSchema(actual) == [type |-> "recursive", actual |-> actual]

\* a Go nil interface value, and the zero reflect.Value
Nil == [k |-> "nil"]

SchemaField(n, al, t, d) == [name |-> n, aliases |-> al, ftype |-> t, default |-> d]

Type(s) == s.type

GetName(s) ==
  CASE s.type \in PrimitiveTypes -> s.type
    [] s.type \in {"array", "map", "union"} -> s.type
    [] s.type = "recursive" -> s.actual.name
    [] OTHER -> s.name

(***************************************************************************)
(* Results of the constructors: a projector, an error, or a panic.         *)
(***************************************************************************)
NilProjector == [p |-> "nil"]

Ok(p) == [st |-> "ok", proj |-> p, msg |-> ""]

Err(m) == [st |-> "err", proj |-> NilProjector, msg |-> m]

Panic(m) == [st |-> "panic", proj |-> NilProjector, msg |-> m]

\* RecursiveSchema.Actual: the record a reference is bound to, which is the
\* schema the parser returned when the reference stands inside it
Actual(s, root) == IF s.actual.type = "pointer" THEN root ELSE s.actual

\* the constructor has called itself on the two records that enclose the
\* references it stands at (part_002:599), which are the schemas it was
\* called on first: that call is still running
Nested(m) == [st |-> "call", proj |-> NilProjector, msg |-> m]

defaultProjector(u) == [p |-> "default", unwrap |-> u]

fixedProjector(sz) == [p |-> "default", unwrap |-> "ReadFixed", size |-> sz]

\* reflect.ValueOf(x): the zero Value for a nil interface
ValueOf(x) == [valid |-> x /= Nil, v |-> x]

(***************************************************************************)
(* Record field matching, shared by both revisions                         *)
(* (part_002:853-888, datum_projector.go:214-237).                         *)
(***************************************************************************)
\* index of the first reader field whose name is the writer field's, or 0
matchByName(rfields, wname) ==
  LET hits == {j \in DOMAIN rfields : rfields[j].name = wname}
  IN IF hits = {} THEN 0 ELSE Min(hits)

\* index of the first reader field having the writer field's name among its
\* aliases, or 0
matchByAlias(rfields, wname) ==
  LET hits == {j \in DOMAIN rfields : wname \in Range(rfields[j].aliases)}
  IN IF hits = {} THEN 0 ELSE Min(hits)

\* a variant that looks at the aliases before the names
matchFieldAliasFirst(rfields, wname) ==
  IF matchByAlias(rfields, wname) /= 0 THEN matchByAlias(rfields, wname)
  ELSE matchByName(rfields, wname)

\* the reader field a writer field is projected into: by name, then by alias
matchField(rfields, wname) ==
  IF matchByName(rfields, wname) /= 0 THEN matchByName(rfields, wname)
  ELSE matchByAlias(rfields, wname)

(***************************************************************************)
(* newProjector and its helpers, src/unnamed/part_002:375-929.             *)
(***************************************************************************)
\* a variant of the switch without the promotions
primitiveUnwrapExact(r, w) ==
  CASE r /= w -> ""
    [] r = "null" -> "nil"
    [] r = "boolean" -> "ReadBoolean"
    [] r = "int" -> "ReadInt"
    [] r = "long" -> "ReadLong"
    [] r = "float" -> "ReadFloat"
    [] r = "double" -> "ReadDouble"
    [] r = "bytes" -> "ReadBytes"
    [] OTHER -> "ReadString"

\* the primitive cases of the switch: the decoder call and the conversion of
\* its result, or "" for an impossible projection
primitiveUnwrap(r, w) ==
  CASE r = "null" /\ w = "null" -> "nil"
    [] r = "boolean" /\ w = "boolean" -> "ReadBoolean"
    [] r = "int" /\ w = "int" -> "ReadInt"
    [] r = "long" /\ w = "long" -> "ReadLong"
    [] r = "long" /\ w = "int" -> "ReadInt.int64"
    [] r = "float" /\ w = "float" -> "ReadFloat"
    [] r = "float" /\ w = "int" -> "ReadInt.float32"
    [] r = "float" /\ w = "long" -> "ReadLong.float32"
    [] r = "double" /\ w = "double" -> "ReadDouble"
    [] r = "double" /\ w = "int" -> "ReadInt.float64"
    [] r = "double" /\ w = "long" -> "ReadLong.float64"
    [] r = "double" /\ w = "float" -> "ReadFloat.float64"
    [] r = "bytes" /\ w = "bytes" -> "ReadBytes"
    [] r = "bytes" /\ w = "string" -> "ReadString.bytes"
    [] r = "string" /\ w = "string" -> "ReadString"
    [] r = "string" /\ w = "bytes" -> "ReadBytes.string"
    [] OTHER -> ""

newEnumProjector(r, w) ==
  Ok([p |-> "enum", readerSymbols |-> r.symbols, writerSymbols |-> w.symbols])

newUnionProjector(variants) == Ok([p |-> "union", variants |-> variants])

\* the default value of an unmatched reader field as a reflect.Value
\* (part_002:895-918): a result whose proj field is unused
defaultValueOf(rf) ==
  IF Type(rf.ftype) = "array" THEN
    IF rf.default.k /= "[]interface {}" THEN Panic("interface conversion: not []interface {}")
    ELSE IF Len(rf.default.elems) = 0 THEN [st |-> "ok", dv |-> ValueOf(Nil)]
    ELSE IF Type(rf.ftype.items) /= "long" THEN Err("TODO default converter to")
    ELSE IF rf.default.elems[1].k /= "float64" THEN Err("TODO default converter from")
    ELSE IF \E i \in DOMAIN rf.default.elems : rf.default.elems[i].k /= "float64"
         THEN Panic("interface conversion: not float64")
    ELSE [st |-> "ok",
          dv |-> ValueOf([k |-> "[]int64",
                          elems |-> [i \in DOMAIN rf.default.elems |->
                                       [k |-> "int64", i |-> rf.default.elems[i].i]]])]
  ELSE [st |-> "ok", dv |-> ValueOf(rf.default)]

\* the loop "prepare default values" (part_002:891-926) from reader field j on
RECURSIVE prepareDefaults(_, _, _, _)
prepareDefaults(rfields, j, dim, dum) ==
  IF j > Len(rfields) THEN [st |-> "ok", defaultIndexMap |-> dim, defaultUnwrapperMap |-> dum]
  ELSE LET rf == rfields[j] IN
    IF rf.name \notin DOMAIN dim THEN
      LET d == defaultValueOf(rf) IN
      IF d.st /= "ok" THEN d
      ELSE prepareDefaults(rfields, j + 1, MapSet(dim, rf.name, d.dv),
                           IF d.dv.valid THEN MapSet(dum, rf.name, d.dv.v) ELSE dum)
    ELSE prepareDefaults(rfields, j + 1, MapDelete(dim, rf.name), dum)

RECURSIVE newProjector(_, _)
RECURSIVE prepareFields(_, _, _, _, _, _)
RECURSIVE unionVariants(_, _, _)
RECURSIVE firstReaderBranch(_, _, _)

\* the loop "prepare field projectors" (part_002:853-888) from writer field w on
prepareFields(rfields, wfields, w, names, projs, dim) ==
  IF w > Len(wfields) THEN [st |-> "ok", names |-> names, projs |-> projs, dim |-> dim]
  ELSE LET wf == wfields[w]
           j == matchField(rfields, wf.name)
           c == IF j /= 0 THEN newProjector(rfields[j].ftype, wf.ftype)
                ELSE newProjector(wf.ftype, wf.ftype)
       IN IF c.st /= "ok" THEN c
          ELSE prepareFields(rfields, wfields, w + 1,
                             Append(names, IF j /= 0 THEN rfields[j].name ELSE ""),
                             Append(projs, c.proj),
                             IF j /= 0 THEN MapSet(dim, rfields[j].name, ValueOf(Nil)) ELSE dim)

newRecordProjector(r, w) ==
  LET fs == prepareFields(r.fields, w.fields, 1, <<>>, <<>>, EmptyMap) IN
  IF fs.st /= "ok" THEN fs
  ELSE LET ds == prepareDefaults(r.fields, 1, fs.dim, EmptyMap) IN
       IF ds.st /= "ok" THEN [st |-> ds.st, proj |-> NilProjector, msg |-> ds.msg]
       ELSE Ok([p |-> "record",
                readerRecordSchema |-> Nil,
                projectNameMap |-> fs.names,
                projectIndexMap |-> fs.projs,
                defaultIndexMap |-> ds.defaultIndexMap,
                defaultUnwrapperMap |-> ds.defaultUnwrapperMap])

newArrayProjector(r, w) ==
  LET c == newProjector(r.items, w.items) IN
  IF c.st /= "ok" THEN c ELSE Ok([p |-> "array", itemProjector |-> c.proj])

newMapProjector(r, w) ==
  LET kp == newProjector(Prim("string"), Prim("string"))
      vp == newProjector(r.values, w.values)
  IN IF kp.st /= "ok" THEN kp
     ELSE IF vp.st /= "ok" THEN vp
     ELSE Ok([p |-> "map", keyProjector |-> kp.proj, valueProjector |-> vp.proj])

\* writer union, reader union (part_002:380-388): one (t, t) projector per member
unionVariants(types, i, variants) ==
  IF i > Len(types) THEN newUnionProjector(variants)
  ELSE LET c == newProjector(types[i], types[i]) IN
       IF c.st /= "ok" THEN c
       ELSE unionVariants(types, i + 1, MapSet(variants, i - 1, c.proj))

\* reader union, writer not a union (part_002:404-409): the first member that compiles
firstReaderBranch(types, i, w) ==
  IF i > Len(types) THEN Err("reader Union does not contain the writer schema")
  ELSE LET c == newProjector(types[i], w) IN
       IF c.st = "err" THEN firstReaderBranch(types, i + 1, w) ELSE c

newProjector(r, w) ==
  IF Type(w) = "union" THEN
    IF Type(r) = "union" THEN unionVariants(w.types, 1, EmptyMap)
    ELSE LET hits == {i \in DOMAIN w.types :
                        Type(w.types[i]) = Type(r) /\ GetName(w.types[i]) = GetName(r)}
         IN IF hits = {} THEN Err("writer Union does not match reader schema")
            ELSE LET i == Min(hits)
                     c == newProjector(r, w.types[i])
                 IN IF c.st /= "ok" THEN c
                    ELSE newUnionProjector(MapSet(EmptyMap, i - 1, c.proj))
  ELSE IF Type(r) = "union" THEN firstReaderBranch(r.types, 1, w)
  ELSE CASE Type(r) \in PrimitiveTypes ->
              IF Type(w) \in PrimitiveTypes /\ primitiveUnwrap(Type(r), Type(w)) /= ""
              THEN Ok(defaultProjector(primitiveUnwrap(Type(r), Type(w))))
              ELSE Err("impossible projection")
         [] Type(r) = "fixed" ->
              IF Type(w) /= "fixed" THEN Panic("interface conversion: not *FixedSchema")
              ELSE IF r.size = w.size THEN Ok(fixedProjector(w.size))
              ELSE Err("impossible projection")
         [] Type(r) = "enum" ->
              IF Type(w) = "enum" THEN newEnumProjector(r, w) ELSE Err("impossible projection")
         [] Type(r) = "array" ->
              IF Type(w) = "array" THEN newArrayProjector(r, w) ELSE Err("impossible projection")
         [] Type(r) = "map" ->
              IF Type(w) = "map" THEN newMapProjector(r, w) ELSE Err("impossible projection")
         [] Type(r) = "record" ->
              IF Type(w) = "record" THEN newRecordProjector(r, w) ELSE Err("impossible projection")
         [] Type(r) = "recursive" ->
              CASE Type(w) = "record" -> newProjector(Actual(r, readerSchema), w)
                [] Type(w) = "recursive" ->
                     IF Type(r.actual) = "pointer" /\ Type(w.actual) = "pointer"
                     THEN Nested("newProjector")
                     ELSE newProjector(Actual(r, readerSchema), Actual(w, writerSchema))
                [] OTHER -> Err("impossible recurive schema projection")
         [] OTHER -> Err("not Implemented type")


(***************************************************************************)
(* newProjection and unionProjection, src/datum_projector.go:43-386.       *)
(* This revision reports every failure by panicking.                       *)
(***************************************************************************)
\* the primitive cases of the switch (datum_projector.go:84-200); reader long
\* with writer long decodes with dec.ReadInt
primitiveUnwrapProjection(r, w) ==
  IF r = "long" /\ w = "long" THEN "ReadInt" ELSE primitiveUnwrap(r, w)

unionProjection(variants) == Ok([p |-> "union", variants |-> variants])

\* the default value of an unmatched reader field (datum_projector.go:242-265)
defaultValueOfProjection(rf) ==
  IF Type(rf.ftype) = "array" THEN
    IF rf.default.k /= "[]interface {}" THEN Panic("interface conversion: not []interface {}")
    ELSE IF Len(rf.default.elems) = 0 THEN [st |-> "ok", dv |-> ValueOf(Nil)]
    ELSE IF Type(rf.ftype.items) /= "long" THEN Panic("not impelemented")
    ELSE IF rf.default.elems[1].k /= "float64" THEN Panic("not impelemented")
    ELSE IF \E i \in DOMAIN rf.default.elems : rf.default.elems[i].k /= "float64"
         THEN Panic("interface conversion: not float64")
    ELSE [st |-> "ok",
          dv |-> ValueOf([k |-> "[]int64",
                          elems |-> [i \in DOMAIN rf.default.elems |->
                                       [k |-> "int64", i |-> rf.default.elems[i].i]]])]
  ELSE [st |-> "ok", dv |-> ValueOf(rf.default)]

\* the loop over the reader fields (datum_projector.go:238-270) from field j on
RECURSIVE prepareDefaultsProjection(_, _, _, _)
prepareDefaultsProjection(rfields, j, dim, dum) ==
  IF j > Len(rfields) THEN [st |-> "ok", defaultIndexMap |-> dim, defaultUnwrapperMap |-> dum]
  ELSE LET rf == rfields[j] IN
    IF rf.name \notin DOMAIN dim THEN
      LET d == defaultValueOfProjection(rf) IN
      IF d.st /= "ok" THEN d
      ELSE prepareDefaultsProjection(rfields, j + 1, MapSet(dim, rf.name, d.dv),
                                     MapSet(dum, rf.name, rf.default))
    ELSE prepareDefaultsProjection(rfields, j + 1, MapDelete(dim, rf.name), dum)

RECURSIVE newProjection(_, _)
RECURSIVE prepareFieldsProjection(_, _, _, _, _, _)
RECURSIVE unionVariantsProjection(_, _, _, _)

\* the loop over the writer fields (datum_projector.go:214-237) from field w on
prepareFieldsProjection(rfields, wfields, w, names, projs, dim) ==
  IF w > Len(wfields) THEN [st |-> "ok", names |-> names, projs |-> projs, dim |-> dim]
  ELSE LET wf == wfields[w]
           j == matchField(rfields, wf.name)
           c == IF j /= 0 THEN newProjection(rfields[j].ftype, wf.ftype)
                ELSE newProjection(wf.ftype, wf.ftype)
       IN IF c.st /= "ok" THEN c
          ELSE prepareFieldsProjection(rfields, wfields, w + 1,
                             Append(names, IF j /= 0 THEN rfields[j].name ELSE ""),
                             Append(projs, c.proj),
                             IF j /= 0 THEN MapSet(dim, rfields[j].name, ValueOf(Nil)) ELSE dim)

\* the variants of a writer union from member i on: with r = Nil one (t, t)
\* projection per member (datum_projector.go:48-51), else (r, t) for the members
\* of r's type and a nil pointer for the others (datum_projector.go:56-61)
unionVariantsProjection(r, types, i, variants) ==
  IF i > Len(types) THEN unionProjection(variants)
  ELSE IF r /= Nil /\ Type(types[i]) /= Type(r)
       THEN unionVariantsProjection(r, types, i + 1, MapSet(variants, i - 1, NilProjector))
  ELSE LET c == IF r = Nil THEN newProjection(types[i], types[i])
                ELSE newProjection(r, types[i])
       IN IF c.st /= "ok" THEN c
          ELSE unionVariantsProjection(r, types, i + 1, MapSet(variants, i - 1, c.proj))

newProjection(r, w) ==
  IF Type(w) = "union" THEN
    IF Type(r) = "union" THEN unionVariantsProjection(Nil, w.types, 1, EmptyMap)
    ELSE IF \E i \in DOMAIN w.types :
              Type(w.types[i]) = Type(r) /\ GetName(w.types[i]) = GetName(r)
         THEN unionVariantsProjection(r, w.types, 1, EmptyMap)
         ELSE Panic("writer Union does not match reader schema")
  ELSE IF Type(r) = "union" THEN
    LET hits == {i \in DOMAIN r.types :
                   Type(r.types[i]) = Type(w) /\ GetName(r.types[i]) = GetName(w)}
    IN IF hits /= {} THEN newProjection(r.types[Min(hits)], w)
       ELSE Panic("not Implemented type")
  ELSE CASE Type(r) \in PrimitiveTypes ->
              IF Type(w) \in PrimitiveTypes /\ primitiveUnwrapProjection(Type(r), Type(w)) /= ""
              THEN Ok(defaultProjector(primitiveUnwrapProjection(Type(r), Type(w))))
              ELSE Panic("impossible projection")
         [] Type(r) = "record" ->
              IF Type(w) /= "record" THEN Panic("interface conversion: not *RecordSchema")
              ELSE LET fs == prepareFieldsProjection(r.fields, w.fields, 1, <<>>, <<>>, EmptyMap) IN
                   IF fs.st /= "ok" THEN fs
                   ELSE LET ds == prepareDefaultsProjection(r.fields, 1, fs.dim, EmptyMap) IN
                        IF ds.st /= "ok" THEN [st |-> ds.st, proj |-> NilProjector, msg |-> ds.msg]
                        ELSE Ok([p |-> "record",
                                 readerRecordSchema |-> r,
                                 projectNameMap |-> fs.names,
                                 projectIndexMap |-> fs.projs,
                                 defaultIndexMap |-> ds.defaultIndexMap,
                                 defaultUnwrapperMap |-> ds.defaultUnwrapperMap])
         [] OTHER -> Panic("not Implemented type")

(***************************************************************************)
(* NewDatumProjector (part_002:323-331, datum_projector.go:10-15).         *)
(***************************************************************************)
Impls == {"newProjection", "newProjector"}

Compile(im, r, w) == IF im = "newProjector" THEN newProjector(r, w) ELSE newProjection(r, w)


(***************************************************************************)
(* Go values.  Every value is a record with the field k naming its Go      *)
(* type; i holds an integer, t a boolean, b a byte sequence, elems the     *)
(* elements of a slice, entries the content of a map.                      *)
(***************************************************************************)
Bool(x) == [k |-> "bool", t |-> x]

Int32(n) == [k |-> "int32", i |-> n]

Int64(n) == [k |-> "int64", i |-> n]

\* a float: enc says whether i is a converted integer ("int") or the bit
\* pattern read from the wire ("bits32", "bits64")
Float32(n, e) == [k |-> "float32", i |-> n, enc |-> e]

Float64(n, e) == [k |-> "float64", i |-> n, enc |-> e]

ByteSlice(bs) == [k |-> "[]byte", b |-> bs]

String(bs) == [k |-> "string", b |-> bs]

Slice(es) == [k |-> "[]interface {}", elems |-> es]

GoMap(es) == [k |-> "map", entries |-> es]

\* the largest 32-bit signed integer
MaxInt32 == 2147483647

\* int32(x) of an integer of at most 33 bits: two's complement truncation
toInt32(x) ==
  IF x > MaxInt32 THEN x - MaxInt32 - MaxInt32 - 2
  ELSE IF x < -MaxInt32 - 1 THEN x + MaxInt32 + MaxInt32 + 2
  ELSE x

(***************************************************************************)
(* Binary decoder primitives.  decoder.go is not among the sources: these  *)
(* follow section 4.1 of the specification.  buf is the input, pos the     *)
(* 1-based index of the next byte; a result is [st, v, pos] with st "ok"   *)
(* or "err", and on "err" v is the zero value of the result type.          *)
(***************************************************************************)
DecOk(v, pos) == [st |-> "ok", v |-> v, pos |-> pos]

DecErr(v, pos) == [st |-> "err", v |-> v, pos |-> pos]

DecPanic(pos) == [st |-> "panic", v |-> Nil, pos |-> pos]

\* unsigned varint of at most max bytes: [st, u, pos]
RECURSIVE readVarint(_, _, _, _, _, _)
readVarint(buf, pos, n, mult, acc, max) ==
  IF pos > Len(buf) THEN [st |-> "err", u |-> 0, pos |-> pos]
  ELSE LET byte == buf[pos]
           acc2 == acc + (byte % 128) * mult
       IN IF byte < 128 THEN [st |-> "ok", u |-> acc2, pos |-> pos + 1]
          ELSE IF n + 1 >= max THEN [st |-> "err", u |-> 0, pos |-> pos + 1]
          ELSE readVarint(buf, pos + 1, n + 1, mult * 128, acc2, max)

\* (u >> 1) XOR -(u & 1)
zigzag(u) == IF u % 2 = 0 THEN u \div 2 ELSE -((u + 1) \div 2)

ReadInt(buf, pos) ==
  Then(readVarint(buf, pos, 0, 1, 0, 5), LAMBDA r :
    IF r.st = "ok" THEN DecOk(Int32(toInt32(zigzag(r.u))), r.pos) ELSE DecErr(Int32(0), r.pos))

ReadLong(buf, pos) ==
  Then(readVarint(buf, pos, 0, 1, 0, 10), LAMBDA r :
    IF r.st = "ok" THEN DecOk(Int64(zigzag(r.u)), r.pos) ELSE DecErr(Int64(0), r.pos))

ReadEnum(buf, pos) == ReadInt(buf, pos)

ReadBoolean(buf, pos) ==
  IF pos > Len(buf) THEN DecErr(Bool(FALSE), pos)
  ELSE IF buf[pos] \notin {0, 1} THEN DecErr(Bool(FALSE), pos + 1)
  ELSE DecOk(Bool(buf[pos] = 1), pos + 1)

\* the little-endian number held by bytes pos .. pos+n-1
RECURSIVE littleEndian(_, _, _)
littleEndian(buf, pos, n) ==
  IF n = 0 THEN 0 ELSE buf[pos] + 256 * littleEndian(buf, pos + 1, n - 1)

ReadFloat(buf, pos) ==
  IF pos + 4 > Len(buf) + 1 THEN DecErr(Float32(0, "bits32"), pos)
  ELSE DecOk(Float32(littleEndian(buf, pos, 4), "bits32"), pos + 4)

ReadDouble(buf, pos) ==
  IF pos + 8 > Len(buf) + 1 THEN DecErr(Float64(0, "bits64"), pos)
  ELSE DecOk(Float64(littleEndian(buf, pos, 8), "bits64"), pos + 8)

ReadFixed(buf, pos, n) ==
  IF pos + n > Len(buf) + 1 THEN DecErr(ByteSlice([j \in 1..n |-> 0]), pos)
  ELSE DecOk(ByteSlice(SubSeq(buf, pos, pos + n - 1)), pos + n)

ReadBytes(buf, pos) ==
  Then(ReadLong(buf, pos), LAMBDA c :
    IF c.st /= "ok" \/ c.v.i < 0 THEN DecErr(ByteSlice(<<>>), c.pos)
    ELSE IF c.pos + c.v.i > Len(buf) + 1 THEN DecErr(ByteSlice(<<>>), c.pos)
    ELSE DecOk(ByteSlice(SubSeq(buf, c.pos, c.pos + c.v.i - 1)), c.pos + c.v.i))

\* the inputs of the model hold no byte above 0x80, and 0x80 alone is a
\* continuation byte: a string is valid UTF-8 iff it holds no byte >= 0x80
validUTF8(bs) == \A j \in DOMAIN bs : bs[j] < 128

ReadString(buf, pos) ==
  Then(ReadBytes(buf, pos), LAMBDA c :
    IF c.st /= "ok" \/ ~validUTF8(c.v.b) THEN DecErr(String(<<>>), c.pos)
    ELSE DecOk(String(c.v.b), c.pos))

\* the item count of the next block: 0 ends the collection, a negative count
\* -n is followed by the block's size in bytes and is returned as n
readBlockCount(buf, pos) ==
  Then(ReadLong(buf, pos), LAMBDA c :
    IF c.st /= "ok" THEN DecErr(Int64(0), c.pos)
    ELSE IF c.v.i >= 0 THEN c
    ELSE Then(ReadLong(buf, c.pos), LAMBDA sz :
           IF sz.st /= "ok" THEN DecErr(Int64(0), sz.pos) ELSE DecOk(Int64(-c.v.i), sz.pos)))

ReadArrayStart(buf, pos) == readBlockCount(buf, pos)

ArrayNext(buf, pos) == readBlockCount(buf, pos)

ReadMapStart(buf, pos) == readBlockCount(buf, pos)

MapNext(buf, pos) == readBlockCount(buf, pos)


(***************************************************************************)
(* Targets.  A generic target is a *GenericRecord, a struct target a       *)
(* pointer to a struct whose exported fields are the names in DOMAIN       *)
(* fields, and "nil" stands for a nil or non-pointer target.               *)
(***************************************************************************)
\* strings.Title on the field names of the model: the first letter uppercased
Title(n) ==
  CASE n = "a" -> "A"
    [] n = "b" -> "B"
    [] n = "c" -> "C"
    [] OTHER -> n

\* reflect.Value.FieldByName followed by the lookup of the title-cased name
\* (part_002:983-986): the Go name of the field found, or "" for none
FieldByName(tgt, n) ==
  IF n /= "" /\ n \in DOMAIN tgt.fields THEN n
  ELSE IF Title(n) /= "" /\ Title(n) \in DOMAIN tgt.fields THEN Title(n)
  ELSE ""

GenericTarget == [kind |-> "generic", fields |-> EmptyMap]

StructTarget(names) == [kind |-> "struct", fields |-> [n \in names |-> Nil]]

NilTarget == [kind |-> "nil", fields |-> EmptyMap]

\* a struct that an earlier Read or the caller has filled: every field holds
\* (a pointer to) the value 7
FilledTarget(names) == [kind |-> "struct", fields |-> [n \in names |-> [k |-> "int32", i |-> 7]]]

\* the exported fields a nested struct is taken to have
NestedNames == {"A", "B", "C"}

(***************************************************************************)
(* Unwrap and Project of the projectors.  A result is [st, v, pos]: st is  *)
(* "ok", "err" (an error was returned) or "panic"; pos is where the        *)
(* decoder stands afterwards.                                              *)
(***************************************************************************)
\* v, err := dec.ReadX(); return T(v), err
Converted(r, v) == [st |-> r.st, v |-> v, pos |-> r.pos]

\* the closures of the primitive projectors (part_002:413-556)
unwrapDefault(p, buf, pos) ==
  CASE p.unwrap = "nil" -> DecOk(Nil, pos)
    [] p.unwrap = "ReadBoolean" -> ReadBoolean(buf, pos)
    [] p.unwrap = "ReadInt" -> ReadInt(buf, pos)
    [] p.unwrap = "ReadLong" -> ReadLong(buf, pos)
    [] p.unwrap = "ReadInt.int64" ->
         Then(ReadInt(buf, pos), LAMBDA r : Converted(r, Int64(r.v.i)))
    [] p.unwrap = "ReadFloat" -> ReadFloat(buf, pos)
    [] p.unwrap = "ReadInt.float32" ->
         Then(ReadInt(buf, pos), LAMBDA r : Converted(r, Float32(r.v.i, "int")))
    [] p.unwrap = "ReadLong.float32" ->
         Then(ReadLong(buf, pos), LAMBDA r : Converted(r, Float32(r.v.i, "int")))
    [] p.unwrap = "ReadDouble" -> ReadDouble(buf, pos)
    [] p.unwrap = "ReadInt.float64" ->
         Then(ReadInt(buf, pos), LAMBDA r : Converted(r, Float64(r.v.i, "int")))
    [] p.unwrap = "ReadLong.float64" ->
         Then(ReadLong(buf, pos), LAMBDA r : Converted(r, Float64(r.v.i, "int")))
    [] p.unwrap = "ReadFloat.float64" ->
         Then(ReadFloat(buf, pos), LAMBDA r : Converted(r, Float64(r.v.i, r.v.enc)))
    [] p.unwrap = "ReadBytes" -> ReadBytes(buf, pos)
    [] p.unwrap = "ReadString.bytes" ->
         Then(ReadString(buf, pos), LAMBDA r : Converted(r, ByteSlice(r.v.b)))
    [] p.unwrap = "ReadString" -> ReadString(buf, pos)
    [] p.unwrap = "ReadBytes.string" ->
         Then(ReadBytes(buf, pos), LAMBDA r : Converted(r, String(r.v.b)))
    [] p.unwrap = "ReadFixed" -> ReadFixed(buf, pos, p.size)

\* NewGenericEnum(symbols).symbolsToIndex: the index of a symbol
symbolIndex(symbols, s) == Min({j \in DOMAIN symbols : symbols[j] = s}) - 1

\* an enum projector that returns the writer's index as the reader's
unwrapEnumByIndex(p, buf, pos) ==
  Then(ReadEnum(buf, pos), LAMBDA r :
    IF r.st /= "ok" THEN DecErr(Nil, r.pos)
    ELSE IF r.v.i < 0 \/ r.v.i >= Len(p.writerSymbols) THEN DecPanic(r.pos)
    ELSE IF p.writerSymbols[r.v.i + 1] \in Range(p.readerSymbols)
         THEN DecOk(Int32(r.v.i), r.pos)
    ELSE DecErr(Nil, r.pos))

\* enumProjector.Unwrap (part_002:624-634): p.writerSymbols[enumIndex] is
\* indexed without a bounds check
unwrapEnum(p, buf, pos) ==
  Then(ReadEnum(buf, pos), LAMBDA r :
    IF r.st /= "ok" THEN DecErr(Nil, r.pos)
    ELSE IF r.v.i < 0 \/ r.v.i >= Len(p.writerSymbols) THEN DecPanic(r.pos)
    ELSE IF p.writerSymbols[r.v.i + 1] \in Range(p.readerSymbols)
         THEN DecOk(Int32(symbolIndex(p.readerSymbols, p.writerSymbols[r.v.i + 1])), r.pos)
    ELSE DecErr(Nil, r.pos))

\* the child a union tag selects (part_002:664, 677; datum_projector.go:367-371,
\* 380-383): [st, proj]; the slice of the older revision may hold a nil pointer
selectVariant(im, p, tag) ==
  IF im = "newProjector" THEN
    IF tag \in DOMAIN p.variants THEN Ok(p.variants[tag]) ELSE Err("invalid union index")
  ELSE IF tag < 0 \/ tag >= Cardinality(DOMAIN p.variants) THEN Err("invalid union index")
  ELSE IF p.variants[tag].p = "nil" THEN Panic("nil pointer dereference")
  ELSE Ok(p.variants[tag])

\* the copy of a block into the result of arrayProjector.Unwrap
\* (part_002:716-719): both copy calls write at index 0 of concatArray
concatBlock(array, arrayPart) ==
  [j \in 1..(Len(array) + Len(arrayPart)) |->
     IF j <= Len(arrayPart) THEN arrayPart[j]
     ELSE IF j <= Len(array) THEN array[j]
     ELSE Nil]

RECURSIVE Unwrap(_, _, _, _)
RECURSIVE Project(_, _, _, _, _)
RECURSIVE unwrapItems(_, _, _, _, _, _)
RECURSIVE unwrapBlocks(_, _, _, _, _, _)
RECURSIVE projectItems(_, _, _, _, _, _)
RECURSIVE projectBlocks(_, _, _, _, _, _)
RECURSIVE unwrapEntries(_, _, _, _, _, _, _)
RECURSIVE unwrapMapBlocks(_, _, _, _, _, _, _)
RECURSIVE recordStep(_, _, _, _, _, _)
RECURSIVE recordFields(_, _, _, _, _, _)
RECURSIVE unwrapOrProject(_, _, _, _, _, _)
RECURSIVE unwrapVariant(_, _, _, _, _, _)

\* the items of one array block (part_002:709-715)
unwrapItems(im, p, buf, pos, n, part) ==
  IF n = 0 THEN [st |-> "ok", elems |-> part, pos |-> pos]
  ELSE Then(Unwrap(im, p.itemProjector, buf, pos), LAMBDA r :
         IF r.st /= "ok" THEN [st |-> r.st, elems |-> part, pos |-> r.pos]
         ELSE unwrapItems(im, p, buf, r.pos, n - 1, Append(part, r.v)))

\* the loop over the blocks of arrayProjector.Unwrap (part_002:706-724)
unwrapBlocks(im, p, buf, pos, arrayLength, array) ==
  IF arrayLength <= 0 THEN DecOk(Slice(array), pos)
  ELSE Then(unwrapItems(im, p, buf, pos, arrayLength, <<>>), LAMBDA items :
         IF items.st /= "ok" THEN [st |-> items.st, v |-> Nil, pos |-> items.pos]
         ELSE Then(ArrayNext(buf, items.pos), LAMBDA next :
                IF next.st /= "ok" THEN DecErr(Nil, next.pos)
                ELSE unwrapBlocks(im, p, buf, next.pos, next.v.i,
                                  concatBlock(array, items.elems))))

\* the items of one array block (part_002:741-746)
projectItems(im, p, buf, pos, n, part) ==
  IF n = 0 THEN [st |-> "ok", elems |-> part, pos |-> pos]
  ELSE Then(Project(im, p.itemProjector, Nil, buf, pos), LAMBDA r :
         IF r.st /= "ok" THEN [st |-> r.st, elems |-> part, pos |-> r.pos]
         ELSE projectItems(im, p, buf, r.pos, n - 1, Append(part, r.v)))

\* the loop over the blocks of arrayProjector.Project (part_002:738-756)
projectBlocks(im, p, buf, pos, arrayLength, array) ==
  IF arrayLength <= 0 THEN DecOk(Slice(array), pos)
  ELSE Then(projectItems(im, p, buf, pos, arrayLength, <<>>), LAMBDA items :
         IF items.st /= "ok" THEN [st |-> items.st, v |-> Nil, pos |-> items.pos]
         ELSE Then(ArrayNext(buf, items.pos), LAMBDA next :
                IF next.st /= "ok" THEN DecErr(Nil, next.pos)
                ELSE projectBlocks(im, p, buf, next.pos, next.v.i, array \o items.elems)))

\* a child of the map projector in the mode of its parent: Unwrap, or Project
\* into a fresh value
unwrapOrProject(im, child, mode, cur, buf, pos) ==
  IF mode = "Unwrap" THEN Unwrap(im, child, buf, pos) ELSE Project(im, child, cur, buf, pos)

\* the entries of one map block (part_002:787-795, 817-833); mode is "Unwrap"
\* or "Project"
unwrapEntries(im, p, mode, buf, pos, n, resultMap) ==
  IF n = 0 THEN [st |-> "ok", entries |-> resultMap, pos |-> pos]
  ELSE Then(unwrapOrProject(im, p.keyProjector, mode, String(<<>>), buf, pos), LAMBDA key :
         IF key.st /= "ok" THEN [st |-> key.st, entries |-> resultMap, pos |-> key.pos]
         ELSE Then(unwrapOrProject(im, p.valueProjector, mode, Nil, buf, key.pos), LAMBDA val :
                IF val.st /= "ok" THEN [st |-> val.st, entries |-> resultMap, pos |-> val.pos]
                ELSE unwrapEntries(im, p, mode, buf, val.pos, n - 1,
                                   MapSet(resultMap, key.v.b, val.v))))

\* the loop over the blocks of mapProjector.Unwrap and mapProjector.Project
\* (part_002:785-800, 815-839): the error of dec.MapNext() is assigned and
\* never read; the count that comes with it is 0 and ends the loop
unwrapMapBlocks(im, p, mode, buf, pos, mapLength, resultMap) ==
  IF mapLength <= 0 THEN DecOk(GoMap(resultMap), pos)
  ELSE Then(unwrapEntries(im, p, mode, buf, pos, mapLength, resultMap), LAMBDA es :
         IF es.st /= "ok" THEN [st |-> es.st, v |-> Nil, pos |-> es.pos]
         ELSE Then(MapNext(buf, es.pos), LAMBDA next :
                unwrapMapBlocks(im, p, mode, buf, next.pos, next.v.i, es.entries)))

\* the defaults written after the writer fields (part_002:951-955, 976-980,
\* 995-1006; datum_projector.go:287-291, 317-321, 338-348): [st, tgt, written]
applyDefaults(im, p, tgt) ==
  IF DOMAIN p.defaultIndexMap = {} THEN [st |-> "ok", tgt |-> tgt, written |-> {}]
  ELSE IF tgt.kind = "generic" THEN
    [st |-> "ok", written |-> DOMAIN p.defaultUnwrapperMap,
     tgt |-> [tgt EXCEPT !.fields =
                [n \in (DOMAIN tgt.fields) \cup (DOMAIN p.defaultUnwrapperMap) |->
                   IF n \in DOMAIN p.defaultUnwrapperMap THEN p.defaultUnwrapperMap[n]
                   ELSE tgt.fields[n]]]]
  ELSE LET found == {d \in DOMAIN p.defaultIndexMap : FieldByName(tgt, d) /= ""}
           exact == {d \in found : FieldByName(tgt, d) = d}
           written == {d \in found :
                         p.defaultIndexMap[d].valid \/ d \in exact \/ im = "newProjection"}
       IN IF \E d \in written : ~p.defaultIndexMap[d].valid
          THEN [st |-> "panic", tgt |-> tgt, written |-> {}]
          ELSE [st |-> "ok", written |-> written,
                tgt |-> [tgt EXCEPT !.fields =
                           [g \in DOMAIN tgt.fields |->
                              IF \E d \in written : FieldByName(tgt, d) = g
                              THEN p.defaultIndexMap[
                                     CHOOSE d \in written : FieldByName(tgt, d) = g].v
                              ELSE tgt.fields[g]]]]

\* one turn of the loop over the writer fields of a record (part_002:942-950,
\* 967-975, 982-994; datum_projector.go:274-286, 304-316, 323-337) for writer
\* field w: [st, tgt, pos, ev], ev being what the turn did
recordStep(im, p, tgt, w, buf, pos) ==
  IF tgt.kind = "generic" THEN
    Then(Unwrap(im, p.projectIndexMap[w], buf, pos), LAMBDA r :
      IF r.st /= "ok"
      THEN [st |-> r.st, tgt |-> tgt, pos |-> r.pos,
            ev |-> <<[e |-> "decode", w |-> w, nm |-> p.projectNameMap[w], st |-> r.st]>>]
      ELSE IF r.v /= Nil /\ p.projectNameMap[w] /= ""
      THEN [st |-> "ok",
            tgt |-> [tgt EXCEPT !.fields = MapSet(tgt.fields, p.projectNameMap[w], r.v)],
            pos |-> r.pos,
            ev |-> <<[e |-> "decode", w |-> w, nm |-> p.projectNameMap[w], st |-> "ok"],
                     [e |-> "set", w |-> w, nm |-> p.projectNameMap[w], st |-> "ok"]>>]
      ELSE [st |-> "ok", tgt |-> tgt, pos |-> r.pos,
            ev |-> <<[e |-> "decode", w |-> w, nm |-> p.projectNameMap[w], st |-> "ok"]>>])
  ELSE IF FieldByName(tgt, p.projectNameMap[w]) = "" THEN
    \* still have to read deleted fields from the writer value: the error of
    \* Unwrap is dropped
    Then(Unwrap(im, p.projectIndexMap[w], buf, pos), LAMBDA r :
      [st |-> IF r.st = "panic" THEN "panic" ELSE "ok", tgt |-> tgt, pos |-> r.pos,
       ev |-> <<[e |-> "decode", w |-> w, nm |-> p.projectNameMap[w], st |-> r.st]>>])
  ELSE
    Then(Project(im, p.projectIndexMap[w],
                 tgt.fields[FieldByName(tgt, p.projectNameMap[w])], buf, pos), LAMBDA r :
      IF r.st /= "ok"
      THEN [st |-> r.st, tgt |-> tgt, pos |-> r.pos,
            ev |-> <<[e |-> "decode", w |-> w, nm |-> p.projectNameMap[w], st |-> r.st]>>]
      ELSE [st |-> "ok",
            tgt |-> [tgt EXCEPT !.fields[FieldByName(tgt, p.projectNameMap[w])] = r.v],
            pos |-> r.pos,
            ev |-> <<[e |-> "decode", w |-> w, nm |-> p.projectNameMap[w], st |-> "ok"],
                     [e |-> "set", w |-> w, nm |-> FieldByName(tgt, p.projectNameMap[w]),
                      st |-> "ok"]>>])

\* the whole loop from writer field w on, then the defaults: [st, tgt, pos]
recordFields(im, p, tgt, w, buf, pos) ==
  IF w > Len(p.projectIndexMap)
  THEN Then(applyDefaults(im, p, tgt), LAMBDA d : [st |-> d.st, tgt |-> d.tgt, pos |-> pos])
  ELSE Then(recordStep(im, p, tgt, w, buf, pos), LAMBDA r :
         IF r.st /= "ok" THEN [st |-> r.st, tgt |-> r.tgt, pos |-> r.pos]
         ELSE recordFields(im, p, r.tgt, w + 1, buf, r.pos))

\* the child a union tag selects, run in mode "Unwrap" or "Project"
\* (part_002:659-683; datum_projector.go:361-384)
unwrapVariant(im, p, mode, cur, buf, pos) ==
  Then(ReadInt(buf, pos), LAMBDA tag :
    IF tag.st /= "ok" THEN DecErr(cur, tag.pos)
    ELSE Then(selectVariant(im, p, tag.v.i), LAMBDA c :
           IF c.st = "err" THEN DecErr(cur, tag.pos)
           ELSE IF c.st = "panic" THEN DecPanic(tag.pos)
           ELSE unwrapOrProject(im, c.proj, mode, cur, buf, tag.pos)))

\* what Project leaves in a field holding cur when r is the result of the
\* projector's decoding
keepOnFailure(r, cur) == IF r.st /= "ok" THEN [st |-> r.st, v |-> cur, pos |-> r.pos] ELSE r

\* projector.Unwrap (part_002:371, 624, 659, 699, 779, 940;
\* datum_projector.go:88-200, 272-293, 361-373)
Unwrap(im, p, buf, pos) ==
  CASE p.p = "default" -> unwrapDefault(p, buf, pos)
    [] p.p = "enum" -> unwrapEnum(p, buf, pos)
    [] p.p = "union" -> unwrapVariant(im, p, "Unwrap", Nil, buf, pos)
    [] p.p = "array" ->
         Then(ReadArrayStart(buf, pos), LAMBDA n :
           IF n.st /= "ok" THEN DecErr(Nil, n.pos)
           ELSE unwrapBlocks(im, p, buf, n.pos, n.v.i, <<>>))
    [] p.p = "map" ->
         Then(ReadMapStart(buf, pos), LAMBDA n :
           IF n.st /= "ok" THEN DecErr(Nil, n.pos)
           ELSE unwrapMapBlocks(im, p, "Unwrap", buf, n.pos, n.v.i, EmptyMap))
    [] p.p = "record" ->
         Then(recordFields(im, p, GenericTarget, 1, buf, pos), LAMBDA r :
           IF r.st /= "ok" THEN [st |-> r.st, v |-> Nil, pos |-> r.pos]
           ELSE DecOk([k |-> "*GenericRecord", schema |-> p.readerRecordSchema,
                       fields |-> r.tgt.fields], r.pos))

\* projector.Project into a field holding cur (part_002:355, 636, 672, 728,
\* 803, 959; datum_projector.go:76-82, 34-41, 374-384): v is what the field
\* holds afterwards
Project(im, p, cur, buf, pos) ==
  CASE p.p = "default" ->
         Then(unwrapDefault(p, buf, pos), LAMBDA r :
           IF r.st /= "ok" THEN [st |-> r.st, v |-> cur, pos |-> r.pos]
           ELSE IF r.v /= Nil THEN r
           ELSE IF im = "newProjector" THEN DecOk(cur, r.pos)
           ELSE DecPanic(r.pos))
    [] p.p = "enum" ->
         Then(unwrapEnum(p, buf, pos), LAMBDA r :
           IF r.st /= "ok" THEN [st |-> r.st, v |-> cur, pos |-> r.pos]
           ELSE DecOk([k |-> "*GenericEnum", symbols |-> p.readerSymbols, i |-> r.v.i], r.pos))
    [] p.p = "union" -> unwrapVariant(im, p, "Project", cur, buf, pos)
    [] p.p = "array" ->
         Then(ReadArrayStart(buf, pos), LAMBDA n :
           IF n.st /= "ok" THEN DecErr(cur, n.pos)
           ELSE keepOnFailure(projectBlocks(im, p, buf, n.pos, n.v.i, <<>>), cur))
    [] p.p = "map" ->
         Then(ReadMapStart(buf, pos), LAMBDA n :
           IF n.st /= "ok" THEN DecErr(cur, n.pos)
           ELSE keepOnFailure(
                  unwrapMapBlocks(im, p, "Project", buf, n.pos, n.v.i, EmptyMap), cur))
    [] p.p = "record" ->
         Then(recordFields(im, p, StructTarget(NestedNames), 1, buf, pos), LAMBDA r :
           IF r.st /= "ok" THEN [st |-> r.st, v |-> cur, pos |-> r.pos]
           ELSE DecOk([k |-> "struct", fields |-> r.tgt.fields], r.pos))

(***************************************************************************)
(* Schema.Validate, src/schema.go.                                         *)
(***************************************************************************)
RECURSIVE Validate(_, _)

\* RecordSchema.Validate (schema.go:610-645): every key of a generic record
\* ends with the name of a schema field, and the first such field validates
\* the value; the names of the model are single letters
validateFields(s, fields) ==
  \A key \in DOMAIN fields :
    /\ \E idx \in DOMAIN s.fields : s.fields[idx].name = key
    /\ Validate(s.fields[Min({idx \in DOMAIN s.fields : s.fields[idx].name = key})].ftype,
                fields[key])

\* whether Go value v is writeable to schema s; reflect.TypeOf(nil).Kind()
\* panics in the numeric and boolean schemas, which is not a validation
Validate(s, v) ==
  CASE s.type = "string" -> v.k = "string"
    [] s.type = "bytes" -> v.k = "[]byte"
    [] s.type = "int" -> v.k = "int32"
    [] s.type = "long" -> v.k = "int64"
    [] s.type = "float" -> v.k = "float32"
    [] s.type = "double" -> v.k = "float64"
    [] s.type = "boolean" -> v.k = "bool"
    [] s.type = "null" ->
         \/ v.k = "nil"
         \/ v.k \in {"[]byte", "string"} /\ Len(v.b) = 0
         \/ v.k \in {"[]interface {}", "[]int64"} /\ Len(v.elems) = 0
         \/ v.k = "map" /\ DOMAIN v.entries = {}
    [] s.type = "record" ->
         \/ v.k = "struct"
         \/ v.k = "*GenericRecord" /\ validateFields(s, v.fields)
    [] s.type = "enum" -> TRUE
    [] s.type = "array" -> v.k \in {"[]byte", "[]interface {}", "[]int64"}
    [] s.type = "map" -> v.k = "map"
    [] s.type = "union" -> \E j \in DOMAIN s.types : Validate(s.types[j], v)
    [] s.type = "fixed" -> v.k = "[]byte" /\ Len(v.b) = s.size

(***************************************************************************)
(* Writer data and their binary encoding.  The encoder is not among the    *)
(* sources: the wire format is that of section 6.1 of the specification.   *)
(* A union datum is a branch [k, i, v]; a record datum holds its field     *)
(* values in elems, in declaration order.                                  *)
(***************************************************************************)
IntData == -1..MaxInt

Branch(tag, v) == [k |-> "branch", i |-> tag, v |-> v]

RecordDatum(vs) == [k |-> "record", elems |-> vs]

EnumDatum(n) == [k |-> "enum", i |-> n]

RECURSIVE Values(_)
RECURSIVE fieldValues(_, _)

\* the sequences of values of the fields from field j on
fieldValues(fields, j) ==
  IF j > Len(fields) THEN {<<>>}
  ELSE {<<x>> \o rest : x \in Values(fields[j].ftype), rest \in fieldValues(fields, j + 1)}

\* the data of the model that are valid under schema s
Values(s) ==
  CASE s.type = "null" -> {Nil}
    [] s.type = "boolean" -> {Bool(TRUE), Bool(FALSE)}
    [] s.type = "int" -> {Int32(n) : n \in IntData}
    [] s.type = "long" -> {Int64(n) : n \in IntData}
    [] s.type = "float" -> {Float32(n, "bits32") : n \in {0, 1}}
    [] s.type = "double" -> {Float64(n, "bits64") : n \in {0, 1}}
    [] s.type = "bytes" -> {ByteSlice(<<>>), ByteSlice(<<2>>)}
    [] s.type = "string" -> {String(<<>>), String(<<2>>)}
    [] s.type = "fixed" -> {ByteSlice([j \in 1..s.size |-> 0])}
    [] s.type = "enum" -> {EnumDatum(n) : n \in 0..(Len(s.symbols) - 1)}
    [] s.type = "array" -> {Slice(<<>>)} \cup {Slice(<<x>>) : x \in Values(s.items)}
    [] s.type = "map" -> {GoMap(EmptyMap)} \cup {GoMap(MapSet(EmptyMap, <<2>>, x)) : x \in Values(s.values)}
    [] s.type = "union" ->
         UNION {{Branch(j - 1, x) : x \in Values(s.types[j])} : j \in DOMAIN s.types}
    [] s.type = "record" -> {RecordDatum(vs) : vs \in fieldValues(s.fields, 1)}

\* the bytes of an unsigned varint
RECURSIVE encodeVarint(_)
encodeVarint(u) ==
  IF u < 128 THEN <<u>> ELSE <<128 + (u % 128)>> \o encodeVarint(u \div 128)

encodeLong(n) == encodeVarint(IF n >= 0 THEN 2 * n ELSE -2 * n - 1)

\* n as count little-endian bytes
RECURSIVE encodeLittleEndian(_, _)
encodeLittleEndian(n, count) ==
  IF count = 0 THEN <<>> ELSE <<n % 256>> \o encodeLittleEndian(n \div 256, count - 1)

RECURSIVE Encode(_, _)
RECURSIVE encodeFields(_, _, _)
RECURSIVE encodeItems(_, _, _)

encodeFields(fields, vs, j) ==
  IF j > Len(fields) THEN <<>>
  ELSE Encode(fields[j].ftype, vs[j]) \o encodeFields(fields, vs, j + 1)

encodeItems(s, es, j) ==
  IF j > Len(es) THEN <<>> ELSE Encode(s, es[j]) \o encodeItems(s, es, j + 1)

\* the encoding of datum v under writer schema s
Encode(s, v) ==
  CASE s.type = "null" -> <<>>
    [] s.type = "boolean" -> IF v.t THEN <<1>> ELSE <<0>>
    [] s.type \in {"int", "long", "enum"} -> encodeLong(v.i)
    [] s.type = "float" -> encodeLittleEndian(v.i, 4)
    [] s.type = "double" -> encodeLittleEndian(v.i, 8)
    [] s.type \in {"bytes", "string"} -> encodeLong(Len(v.b)) \o v.b
    [] s.type = "fixed" -> v.b
    [] s.type = "array" ->
         IF Len(v.elems) = 0 THEN <<0>>
         ELSE encodeLong(Len(v.elems)) \o encodeItems(s.items, v.elems, 1) \o <<0>>
    [] s.type = "map" ->
         IF DOMAIN v.entries = {} THEN <<0>>
         ELSE LET key == CHOOSE x \in DOMAIN v.entries : TRUE
              IN encodeLong(1) \o encodeLong(Len(key)) \o key
                   \o Encode(s.values, v.entries[key]) \o <<0>>
    [] s.type = "union" -> encodeLong(v.i) \o Encode(s.types[v.i + 1], v.v)
    [] s.type = "record" -> encodeFields(s.fields, v.elems, 1)


(***************************************************************************)
(* The schemas, targets and inputs of the model.                           *)
(***************************************************************************)
PrimitiveSchemas == {Prim(t) : t \in PrimitiveTypes}

EnumXY == EnumSchema("E", <<"x", "y">>)

EnumY == EnumSchema("E", <<"y">>)

EnumYX == EnumSchema("E", <<"y", "x">>)

IntOrString == UnionSchema(<<Prim("int"), Prim("string")>>)

NullOrInt == UnionSchema(<<Prim("null"), Prim("int")>>)

NullOrString == UnionSchema(<<Prim("null"), Prim("string")>>)

ComplexSchemas ==
  {FixedSchema("F", 1), FixedSchema("F", 2), EnumXY, EnumY, EnumYX,
   ArraySchema(Prim("int")), ArraySchema(Prim("long")),
   MapSchema(Prim("int")), MapSchema(Prim("long")),
   IntOrString, NullOrInt, NullOrString}

\* the records of one or two fields with distinct names over a set of fields
RecordsOf(fields) ==
  {RecordSchema("R", <<x>>) : x \in fields}
    \cup {RecordSchema("R", <<pr[1], pr[2]>>) :
            pr \in {q \in fields \X fields : q[1].name /= q[2].name}}

\* the JSON default [1] of an array field, as the parser leaves it
JsonArray == Slice(<<Float64(1, "int")>>)

ExecWriterFields ==
  {SchemaField("a", <<>>, t, Nil) :
     t \in {Prim("int"), IntOrString, NullOrInt, MapSchema(Prim("int")), EnumXY}}
    \cup {SchemaField("b", <<>>, Prim("int"), Nil)}

ExecReaderFields ==
  {SchemaField("a", <<>>, t, Nil) :
     t \in {Prim("int"), Prim("string"), NullOrInt, MapSchema(Prim("int")), EnumY}}
    \cup {SchemaField("b", <<>>, Prim("int"), Nil),
          SchemaField("c", <<>>, Prim("int"), Int32(0)),
          SchemaField("c", <<>>, Prim("int"), Nil)}

\* the (reader, writer) pairs that are compiled and then read
ExecPairs ==
  ((PrimitiveSchemas \cup ComplexSchemas) \X (PrimitiveSchemas \cup ComplexSchemas))
    \cup (RecordsOf(ExecReaderFields) \X RecordsOf(ExecWriterFields))

\* the fields of the records that are only compiled: every combination of a
\* name, an alias list, a type and the presence of a default
MatchReaderFields ==
  {SchemaField(n, al, Prim("int"), d) :
     n \in {"a", "b", "c"}, al \in {<<>>, <<"a">>, <<"b">>, <<"b", "a">>}, d \in {Nil, Int32(0)}}
    \cup {SchemaField("c", <<>>, ArraySchema(t), d) :
            t \in {Prim("int"), Prim("long")}, d \in {Nil, Slice(<<>>), JsonArray}}

MatchWriterFields ==
  {SchemaField(n, <<>>, t, Nil) : n \in {"a", "b"}, t \in {Prim("int"), Prim("string")}}

\* pairs with a reference to a record on either side, bare or as a member of
\* a union
RecursivePairs ==
  UNION {{<<a, RecursiveSchema(b)>>, <<RecursiveSchema(a), b>>,
          <<RecursiveSchema(a), RecursiveSchema(b)>>,
          <<a, UnionSchema(<<Prim("null"), RecursiveSchema(b)>>)>>,
          <<UnionSchema(<<Prim("null"), RecursiveSchema(a)>>), b>>,
          <<a, UnionSchema(<<Prim("null"), b>>)>>,
          <<UnionSchema(<<Prim("null"), a>>), b>>} :
           a \in RecordsOf(ExecReaderFields), b \in RecordsOf(ExecWriterFields)}

CompilePairs ==
  ExecPairs
    \cup RecursivePairs
    \cup (RecordsOf(MatchReaderFields) \X RecordsOf(MatchWriterFields))
    \cup ((PrimitiveSchemas \cup ComplexSchemas) \X RecordsOf(MatchWriterFields))
    \cup (RecordsOf(ExecReaderFields) \X (PrimitiveSchemas \cup ComplexSchemas))

Targets ==
  {GenericTarget, NilTarget,
   StructTarget({"A", "B", "C"}), StructTarget({"B", "C"}), StructTarget({"C"}),
   FilledTarget({"A", "B", "C"})}

\* the items of the blocks from block j on, in wire order
RECURSIVE Flatten(_, _)
Flatten(blocks, j) == IF j > Len(blocks) THEN <<>> ELSE blocks[j] \o Flatten(blocks, j + 1)

\* an array written as several non-empty blocks, each its item count and its
\* items, and the count 0 after the last
RECURSIVE encodeBlocks(_, _, _)
encodeBlocks(s, blocks, j) ==
  IF j > Len(blocks) THEN <<0>>
  ELSE encodeLong(Len(blocks[j])) \o encodeItems(s, blocks[j], 1) \o encodeBlocks(s, blocks, j + 1)

\* the arrays a writer sends in two or three blocks
ArrayBlocks(items) ==
  {<<<<x>>, <<y>>>> : x, y \in Values(items)}
    \cup {<<<<x, y>>, <<x>>>> : x, y \in Values(items)}
    \cup {<<<<x>>, <<y>>, <<x>>>> : x, y \in Values(items)}

\* the bytes arbitrary inputs are made of: the varints 0, -1, 1, 2 and a
\* byte with the continuation bit set
InputBytes == {0, 1, 2, 4, 128}

ArbitraryInputs == UNION {[1..n -> InputBytes] : n \in 0..MaxLen}

\* what may follow a datum in the decoder's buffer
Tails == {<<>>, <<2>>}

\* the inputs of a Read or Unwrap under writer schema w: arbitrary bytes, and
\* every datum of w encoded, alone or followed by more bytes
Inputs(w) ==
  {[buf |-> b, datum |-> Nil, tail |-> <<>>, known |-> FALSE] : b \in ArbitraryInputs}
    \cup {[buf |-> Encode(w, v) \o t, datum |-> v, tail |-> t, known |-> TRUE] :
            v \in Values(w), t \in Tails}
    \cup (IF w.type /= "array" THEN {}
          ELSE {[buf |-> encodeBlocks(w.items, blocks, 1) \o t, datum |-> Slice(Flatten(blocks, 1)),
                 tail |-> t, known |-> TRUE] :
                  blocks \in ArrayBlocks(w.items), t \in Tails})

(***************************************************************************)
(* The state machine.                                                      *)
(*   impl, readerSchema, writerSchema - the revision and the pair compiled *)
(*   compiled - what NewDatumProjector returned (or that it panicked)      *)
(*   pc       - "start", "compiled", "compileError", "compilePanic",       *)
(*              "fields" (inside the field loop of Read), "done",          *)
(*              "readError", "readPanic", "unwrapped", "unwrapError",      *)
(*              "unwrapPanic"                                              *)
(*   dec      - the decoder: its buffer and the index of the next byte     *)
(*   datum    - the writer datum the buffer starts with (known) and the    *)
(*              bytes after it; known is FALSE for arbitrary bytes         *)
(*   target   - the target of Read                                         *)
(*   f        - the writer field the field loop of Read stands at          *)
(*   log      - what the record projector did during the Read              *)
(*   result   - the value Unwrap returned                                  *)
(*   calls    - the Reads running concurrently on the one projector, each  *)
(*              with its own decoder (buf, pos) and target; start is the   *)
(*              target as the call received it                             *)
(*   canon    - a schema on its way through Canonical, MarshalJSON,        *)
(*              ParseSchema and Canonical again                            *)
(*   fingerprints - for the schema nodes readerSchema (1) and writerSchema *)
(*              (2): the fingerprint cached in the node and the values    *)
(*              the calls of Fingerprint returned, in order               *)
(*   parser   - the registry a caller keeps and the calls of               *)
(*              ParseSchemaWithRegistry made with it: the text, the        *)
(*              registry before and after, and what was returned          *)
(*   recursion - a call of newProjector or of Canonical on schemas that    *)
(*              refer to themselves: the operation, where it stands and   *)
(*              how many calls on the same record are nested on the stack *)
(*   heap     - the backing arrays of the slices the projector made for    *)
(*              its defaults, the targets that Reads of the projector have *)
(*              filled, and the delivered defaults a caller has modified   *)
(***************************************************************************)
\* the goroutines that call Read on one projector
Calls == {1, 2}

IdleCall ==
  [pc |-> "idle", buf |-> <<>>, pos |-> 1, start |-> NilTarget, target |-> NilTarget, f |-> 0]

\* the JSON null, which is also what a missing key of an object reads as
JNull == [j |-> "null"]

IdleCanon == [pc |-> "start", json |-> JNull, parsed |-> Nil, json2 |-> JNull]

\* a schema node whose Fingerprint was never called
NoFingerprint == [cached |-> Nil, returned |-> <<>>]

InitOn(pairs) ==
  /\ impl \in Impls
  /\ \E pair \in pairs : readerSchema = pair[1] /\ writerSchema = pair[2]
  /\ compiled = [st |-> "none", proj |-> NilProjector, msg |-> ""]
  /\ pc = "start"
  /\ dec = [buf |-> <<>>, pos |-> 1]
  /\ datum = [v |-> Nil, tail |-> <<>>, known |-> FALSE]
  /\ target = NilTarget
  /\ f = 0
  /\ log = <<>>
  /\ result = Nil
  /\ calls = [c \in Calls |-> IdleCall]
  /\ canon = IdleCanon
  /\ fingerprints = [n \in {1, 2} |-> NoFingerprint]
  /\ parser = [registry |-> EmptyMap, calls |-> <<>>]
  /\ recursion = [op |-> "none", pc |-> "start", depth |-> 0]
  /\ heap = [pc |-> "start", arrays |-> <<>>, targets |-> <<>>, touched |-> {}]

Init == InitOn(ExecPairs)

InitCompile == InitOn(CompilePairs)

\* NewDatumProjector(readerSchema, writerSchema)
NewDatumProjector ==
  /\ pc = "start"
  /\ compiled' = Compile(impl, readerSchema, writerSchema)
  /\ pc' = CASE compiled'.st = "ok" -> "compiled"
             [] compiled'.st = "err" -> "compileError"
             [] OTHER -> "compilePanic"
  /\ UNCHANGED <<impl, readerSchema, writerSchema, dec, datum, target, f, log, result, calls, canon, fingerprints, parser, recursion, heap>>

\* DatumProjector.Read(target, dec) up to the field loop of the record
\* projector (part_002:337-343, 959-966; datum_projector.go:21-27, 295-303)
Read ==
  /\ pc = "compiled"
  /\ compiled.proj.p = "record"
  /\ \E tgt \in Targets, in \in Inputs(writerSchema) :
       /\ dec' = [buf |-> in.buf, pos |-> 1]
       /\ datum' = [v |-> in.datum, tail |-> in.tail, known |-> in.known]
       /\ target' = tgt
       /\ pc' = IF tgt.kind = "nil" THEN "readError" ELSE "fields"
       /\ f' = IF tgt.kind = "nil" THEN 0 ELSE 1
  /\ UNCHANGED <<impl, readerSchema, writerSchema, compiled, log, result, calls, canon, fingerprints, parser, recursion, heap>>

\* one turn of the loop over the writer fields
ProjectField ==
  /\ pc = "fields"
  /\ f <= Len(compiled.proj.projectIndexMap)
  /\ LET r == recordStep(impl, compiled.proj, target, f, dec.buf, dec.pos) IN
       /\ target' = r.tgt
       /\ dec' = [dec EXCEPT !.pos = r.pos]
       /\ log' = log \o r.ev
       /\ pc' = CASE r.st = "ok" -> "fields"
                  [] r.st = "err" -> "readError"
                  [] OTHER -> "readPanic"
       /\ f' = IF r.st = "ok" THEN f + 1 ELSE f
  /\ UNCHANGED <<impl, readerSchema, writerSchema, compiled, datum, result, calls, canon, fingerprints, parser, recursion, heap>>

\* a set of names as a sequence
RECURSIVE SeqOf(_)
SeqOf(S) == IF S = {} THEN <<>> ELSE LET x == CHOOSE y \in S : TRUE IN <<x>> \o SeqOf(S \ {x})

\* the defaults, after the last writer field, and the return of Read
ApplyDefaults ==
  /\ pc = "fields"
  /\ f > Len(compiled.proj.projectIndexMap)
  /\ LET d == applyDefaults(impl, compiled.proj, target) IN
       /\ target' = d.tgt
       /\ log' = log \o [j \in 1..Cardinality(d.written) |->
                           [e |-> "default", w |-> 0, nm |-> SeqOf(d.written)[j], st |-> "ok"]]
       /\ pc' = IF d.st = "ok" THEN "done" ELSE "readPanic"
  /\ UNCHANGED <<impl, readerSchema, writerSchema, compiled, dec, datum, f, result, calls, canon, fingerprints, parser, recursion, heap>>

\* projector.Unwrap(dec) of the root projector
UnwrapDatum ==
  /\ pc = "compiled"
  /\ \E in \in Inputs(writerSchema) :
       LET r == Unwrap(impl, compiled.proj, in.buf, 1) IN
         /\ dec' = [buf |-> in.buf, pos |-> r.pos]
         /\ datum' = [v |-> in.datum, tail |-> in.tail, known |-> in.known]
         /\ result' = IF r.st = "ok" THEN r.v ELSE Nil
         /\ pc' = CASE r.st = "ok" -> "unwrapped"
                    [] r.st = "err" -> "unwrapError"
                    [] OTHER -> "unwrapPanic"
  /\ UNCHANGED <<impl, readerSchema, writerSchema, compiled, target, f, log, calls, canon, fingerprints, parser, recursion, heap>>

Next == NewDatumProjector \/ Read \/ ProjectField \/ ApplyDefaults \/ UnwrapDatum

Spec == Init /\ [][Next]_vars

\* compilation alone, over the larger set of pairs
NextCompile == NewDatumProjector

SpecCompile == InitCompile /\ [][NextCompile]_vars

(***************************************************************************)
(* Concurrent Reads on one projector: every call runs the field loop of    *)
(* RecordProjector.Project with its own decoder and target, and the turns  *)
(* of the loops of different calls interleave.                             *)
(***************************************************************************)
\* readers that keep, re-type, drop and add fields of the writers
ConcurrentReaders ==
  {RecordSchema("R", <<SchemaField("a", <<>>, Prim("int"), Nil)>>),
   RecordSchema("R", <<SchemaField("a", <<>>, NullOrInt, Nil),
                       SchemaField("c", <<>>, Prim("int"), Int32(0))>>),
   RecordSchema("R", <<SchemaField("c", <<>>, Prim("int"), Int32(0))>>)}

ConcurrentWriters ==
  {RecordSchema("R", <<SchemaField("a", <<>>, Prim("int"), Nil),
                       SchemaField("b", <<>>, Prim("int"), Nil)>>),
   RecordSchema("R", <<SchemaField("a", <<>>, NullOrInt, Nil)>>)}

ConcurrentPairs == ConcurrentReaders \X ConcurrentWriters

ConcurrentTargets == {GenericTarget, StructTarget({"A", "B", "C"}), FilledTarget({"A", "B", "C"})}

InitConcurrent == InitOn(ConcurrentPairs)

\* call c enters DatumProjector.Read with a target and a decoder of its own
\* (part_002:337-343)
BeginRead(c) ==
  /\ pc = "compiled"
  /\ compiled.proj.p = "record"
  /\ calls[c].pc /= "fields"
  /\ \E tgt \in ConcurrentTargets, v \in Values(writerSchema) :
       calls' = [calls EXCEPT ![c] =
                   [pc |-> "fields", buf |-> Encode(writerSchema, v), pos |-> 1,
                    start |-> tgt, target |-> tgt, f |-> 1]]
  /\ UNCHANGED <<impl, readerSchema, writerSchema, compiled, pc, dec, datum, target, f, log,
                 result, canon, fingerprints, parser, recursion, heap>>

\* a turn of the loop that keeps the position of the decoder in the projector,
\* where every call sees it
StepReadSharedCursor(c) ==
  /\ calls[c].pc = "fields"
  /\ calls[c].f <= Len(compiled.proj.projectIndexMap)
  /\ LET r == recordStep(impl, compiled.proj, calls[c].target, calls[c].f,
                         calls[c].buf, calls[c].pos) IN
       calls' = [d \in Calls |->
                   IF d /= c THEN [calls[d] EXCEPT !.pos = r.pos]
                   ELSE [calls[c] EXCEPT !.target = r.tgt,
                                         !.pos = r.pos,
                                         !.f = IF r.st = "ok" THEN @ + 1 ELSE @,
                                         !.pc = CASE r.st = "ok" -> "fields"
                                                  [] r.st = "err" -> "readError"
                                                  [] OTHER -> "readPanic"]]
  /\ UNCHANGED <<impl, readerSchema, writerSchema, compiled, pc, dec, datum, target, f, log,
                 result, canon, fingerprints, parser, recursion, heap>>

\* one turn of the loop over the writer fields in call c (part_002:967-975,
\* 982-994)
StepRead(c) ==
  /\ calls[c].pc = "fields"
  /\ calls[c].f <= Len(compiled.proj.projectIndexMap)
  /\ LET r == recordStep(impl, compiled.proj, calls[c].target, calls[c].f,
                         calls[c].buf, calls[c].pos) IN
       calls' = [calls EXCEPT ![c].target = r.tgt,
                              ![c].pos = r.pos,
                              ![c].f = IF r.st = "ok" THEN @ + 1 ELSE @,
                              ![c].pc = CASE r.st = "ok" -> "fields"
                                          [] r.st = "err" -> "readError"
                                          [] OTHER -> "readPanic"]
  /\ UNCHANGED <<impl, readerSchema, writerSchema, compiled, pc, dec, datum, target, f, log,
                 result, canon, fingerprints, parser, recursion, heap>>

\* the defaults and the return of call c (part_002:976-980, 995-1008)
FinishRead(c) ==
  /\ calls[c].pc = "fields"
  /\ calls[c].f > Len(compiled.proj.projectIndexMap)
  /\ LET d == applyDefaults(impl, compiled.proj, calls[c].target) IN
       calls' = [calls EXCEPT ![c].target = d.tgt,
                              ![c].pc = IF d.st = "ok" THEN "done" ELSE "readPanic"]
  /\ UNCHANGED <<impl, readerSchema, writerSchema, compiled, pc, dec, datum, target, f, log,
                 result, canon, fingerprints, parser, recursion, heap>>

NextConcurrent ==
  \/ NewDatumProjector
  \/ \E c \in Calls : BeginRead(c)
  \/ \E c \in Calls : StepRead(c)
  \/ \E c \in Calls : FinishRead(c)

SpecConcurrent == InitConcurrent /\ [][NextConcurrent]_vars


(***************************************************************************)
(* Canonical form and parsing, src/schema.go.  A JSON text is modelled as  *)
(* the value it denotes: a string, a number, an array, or an object with   *)
(* its members in the order they are written.  The schemas of the model    *)
(* have no namespace, so GetFullName is the name.                          *)
(***************************************************************************)
JString(s) == [j |-> "string", str |-> s]

JNumber(n) == [j |-> "number", num |-> n]

JArray(es) == [j |-> "array", elems |-> es]

Member(k, v) == [key |-> k, val |-> v]

JObject(ms) == [j |-> "object", members |-> ms]

\* v[key] of a map[string]interface{}: nil for a missing key
Get(obj, k) ==
  IF \E i \in DOMAIN obj.members : obj.members[i].key = k
  THEN obj.members[CHOOSE i \in DOMAIN obj.members : obj.members[i].key = k].val
  ELSE JNull

\* the zero CanonicalSchema (schema.go:1458-1467)
EmptyCanonical ==
  [Name |-> "", Type |-> "", Fields |-> <<>>, Symbols |-> <<>>, Items |-> Nil, Values |-> Nil,
   Size |-> 0, Types |-> <<>>]

\* CanonicalSchemaField (schema.go:1469-1472)
CanonicalSchemaField(n, t) == [Name |-> n, FieldType |-> t]

\* a canonical form in which a map is written as an array of its values
RECURSIVE CanonicalMapAsItems(_)
CanonicalMapAsItems(s) ==
  CASE s.type \in PrimitiveTypes -> [EmptyCanonical EXCEPT !.Type = s.type]
    [] s.type = "record" ->
         [EmptyCanonical EXCEPT
            !.Type = "record", !.Name = s.name,
            !.Fields = [i \in DOMAIN s.fields |->
                          CanonicalSchemaField(s.fields[i].name,
                                               CanonicalMapAsItems(s.fields[i].ftype))]]
    [] s.type = "recursive" -> CanonicalMapAsItems(s.actual)
    [] s.type = "enum" ->
         [EmptyCanonical EXCEPT !.Name = s.name, !.Type = "enum", !.Symbols = s.symbols]
    [] s.type = "array" ->
         [EmptyCanonical EXCEPT !.Type = "array", !.Items = CanonicalMapAsItems(s.items)]
    [] s.type = "map" ->
         [EmptyCanonical EXCEPT !.Type = "array", !.Items = CanonicalMapAsItems(s.values)]
    [] s.type = "union" ->
         [EmptyCanonical EXCEPT !.Type = "union",
                                !.Types = [i \in DOMAIN s.types |->
                                             CanonicalMapAsItems(s.types[i])]]
    [] s.type = "fixed" -> [EmptyCanonical EXCEPT !.Type = "fixed", !.Name = s.name, !.Size = s.size]

\* Schema.Canonical; the Actual of a reference met inside the record it
\* encloses is that record, and s.Actual.Canonical() (schema.go:690) is then
\* a call nested in the call that is running: the form it would return
\* stands as Type "call" under the record's name
\* (schema.go:162, 210, 256, 302, 348, 394, 440, 511, 554,
\* 689, 812, 892, 968, 1056, 1132); a map says Type "array"
RECURSIVE Canonical(_)
Canonical(s) ==
  CASE s.type \in PrimitiveTypes -> [EmptyCanonical EXCEPT !.Type = s.type]
    [] s.type = "record" ->
         [EmptyCanonical EXCEPT
            !.Type = "record", !.Name = s.name,
            !.Fields = [i \in DOMAIN s.fields |->
                          CanonicalSchemaField(s.fields[i].name, Canonical(s.fields[i].ftype))]]
    [] s.type = "recursive" -> Canonical(s.actual)
    [] s.type = "pointer" -> [EmptyCanonical EXCEPT !.Name = s.name, !.Type = "call"]
    [] s.type = "enum" ->
         [EmptyCanonical EXCEPT !.Name = s.name, !.Type = "enum", !.Symbols = s.symbols]
    [] s.type = "array" -> [EmptyCanonical EXCEPT !.Type = "array", !.Items = Canonical(s.items)]
    [] s.type = "map" -> [EmptyCanonical EXCEPT !.Type = "array", !.Values = Canonical(s.values)]
    [] s.type = "union" ->
         [EmptyCanonical EXCEPT !.Type = "union",
                                !.Types = [i \in DOMAIN s.types |-> Canonical(s.types[i])]]
    [] s.type = "fixed" -> [EmptyCanonical EXCEPT !.Type = "fixed", !.Name = s.name, !.Size = s.size]

\* a member of a marshalled struct with the tag omitempty
OmitEmpty(isEmpty, k, v) == IF isEmpty THEN <<>> ELSE <<Member(k, v)>>

\* CanonicalSchema.MarshalJSON (schema.go:1474-1500)
RECURSIVE MarshalJSON(_)
MarshalJSON(c) ==
  CASE c.Type \in PrimitiveTypes -> JString(c.Type)
    [] c.Type = "union" -> JArray([i \in DOMAIN c.Types |-> MarshalJSON(c.Types[i])])
    [] OTHER ->
         JObject(
           OmitEmpty(c.Name = "", "name", JString(c.Name))
             \o OmitEmpty(c.Type = "", "type", JString(c.Type))
             \o OmitEmpty(Len(c.Fields) = 0, "fields",
                          JArray([i \in DOMAIN c.Fields |->
                                    JObject(
                                      OmitEmpty(c.Fields[i].Name = "", "name",
                                                JString(c.Fields[i].Name))
                                        \o <<Member("type",
                                                    MarshalJSON(c.Fields[i].FieldType))>>)]))
             \o OmitEmpty(Len(c.Symbols) = 0, "symbols",
                          JArray([i \in DOMAIN c.Symbols |-> JString(c.Symbols[i])]))
             \o (IF c.Items = Nil THEN <<>> ELSE <<Member("items", MarshalJSON(c.Items))>>)
             \o (IF c.Values = Nil THEN <<>> ELSE <<Member("values", MarshalJSON(c.Values))>>)
             \o OmitEmpty(c.Size = 0, "size", JNumber(c.Size)))

\* results of the parser: [st, schema, registry], st "ok", "err" or "panic"
ParseOk(s, registry) == [st |-> "ok", schema |-> s, registry |-> registry]

ParseErr(m, registry) == [st |-> "err", schema |-> Nil, registry |-> registry, msg |-> m]

ParsePanic(m, registry) == [st |-> "panic", schema |-> Nil, registry |-> registry, msg |-> m]

\* addSchema (schema.go:1398-1408): the schema already registered under the
\* name wins
addSchema(n, schema, registry) ==
  IF n \in DOMAIN registry THEN ParseOk(registry[n], registry)
  ELSE ParseOk(schema, MapSet(registry, n, schema))

\* the names without a dot that the schema texts of the model use; every
\* other name is a namespace, a dot and one of these
SimpleNames == {"E", "F", "R", "Q"}

\* getFullName (schema.go:1410-1416)
getFullName(name, namespace) ==
  IF namespace /= "" /\ name \in SimpleNames THEN namespace \o "." \o name ELSE name

\* setOptionalField (schema.go:1392-1396) on a string that holds where
setOptionalField(where, v, fieldName) ==
  IF Get(v, fieldName).j = "string" THEN Get(v, fieldName).str ELSE where

\* a pointer to the record registered under a full name: the Actual of the
\* RecursiveSchema that parseRecordSchema registers before the fields of the
\* record are parsed
Pointer(n) == [type |-> "pointer", name |-> n]

\* parseEnumSchema (schema.go:1293-1305): the type assertions panic; the
\* name field of the schema is its GetFullName, the registry key is built
\* from the enclosing namespace
parseEnumSchema(v, registry, namespace) ==
  IF Get(v, "symbols").j /= "array" THEN ParsePanic("interface conversion: not []interface {}", registry)
  ELSE IF \E i \in DOMAIN Get(v, "symbols").elems : Get(v, "symbols").elems[i].j /= "string"
       THEN ParsePanic("interface conversion: not string", registry)
  ELSE IF Get(v, "name").j /= "string" THEN ParsePanic("interface conversion: not string", registry)
  ELSE addSchema(getFullName(Get(v, "name").str, namespace),
                 EnumSchema(getFullName(Get(v, "name").str, setOptionalField("", v, "namespace")),
                            [i \in DOMAIN Get(v, "symbols").elems |-> Get(v, "symbols").elems[i].str]),
                 registry)

\* parseFixedSchema (schema.go:1307-1316)
parseFixedSchema(v, registry, namespace) ==
  IF Get(v, "size").j /= "number" THEN ParseErr("ErrInvalidFixedSize", registry)
  ELSE IF Get(v, "name").j /= "string" THEN ParsePanic("interface conversion: not string", registry)
  ELSE addSchema(getFullName(Get(v, "name").str, namespace),
                 FixedSchema(getFullName(Get(v, "name").str, setOptionalField("", v, "namespace")),
                             Get(v, "size").num),
                 registry)

RECURSIVE schemaByType(_, _, _)
RECURSIVE parseTypes(_, _, _, _, _)
RECURSIVE parseFields(_, _, _, _, _)

\* parseUnionSchema (schema.go:1318-1328) from element i on
parseTypes(v, i, types, registry, namespace) ==
  IF i > Len(v) THEN ParseOk(UnionSchema(types), registry)
  ELSE Then(schemaByType(v[i], registry, namespace), LAMBDA r :
         IF r.st /= "ok" THEN r
         ELSE parseTypes(v, i + 1, Append(types, r.schema), r.registry, namespace))

\* parseSchemaField (schema.go:1350-1390) for the fields from field i on, as
\* the loop of parseRecordSchema calls it; the schema texts of the model
\* give no default
parseFields(v, i, fields, registry, namespace) ==
  IF i > Len(v) THEN [st |-> "ok", schema |-> Nil, registry |-> registry, fields |-> fields]
  ELSE IF v[i].j /= "object" THEN ParseErr("ErrInvalidSchema", registry)
  ELSE IF Get(v[i], "name").j /= "string" THEN ParseErr("Schema field name missing", registry)
  ELSE Then(schemaByType(Get(v[i], "type"), registry, namespace), LAMBDA r :
         IF r.st /= "ok" THEN r
         ELSE parseFields(v, i + 1,
                          Append(fields, SchemaField(Get(v[i], "name").str, <<>>, r.schema, Nil)),
                          r.registry, namespace))

\* the registry once the fields of the record registered under n are set
\* (schema.go:1344): the reference registered under n now leads to the
\* record; a registry that held n before the record was parsed keeps its
\* entry
bindRecord(registry, n, schema, before) ==
  IF n \in DOMAIN before THEN registry ELSE MapSet(registry, n, RecursiveSchema(schema))

\* parseRecordSchema (schema.go:1330-1348): the name is registered with a
\* reference whose record has no fields until they are all parsed
parseRecordSchema(v, registry, namespace) ==
  IF Get(v, "name").j /= "string" THEN ParsePanic("interface conversion: not string", registry)
  ELSE Then(getFullName(Get(v, "name").str, setOptionalField(namespace, v, "namespace")),
            LAMBDA n :
    Then(addSchema(n, RecursiveSchema(Pointer(n)), registry).registry, LAMBDA registered :
      IF Get(v, "fields").j /= "array"
      THEN ParsePanic("interface conversion: not []interface {}", registered)
      ELSE Then(parseFields(Get(v, "fields").elems, 1, <<>>, registered,
                            setOptionalField(namespace, v, "namespace")),
                LAMBDA r :
                  IF r.st /= "ok" THEN r
                  ELSE Then(RecordSchema(getFullName(Get(v, "name").str,
                                                     setOptionalField("", v, "namespace")),
                                         r.fields),
                            LAMBDA schema :
                              ParseOk(schema, bindRecord(r.registry, n, schema, registry))))))

\* schemaByType (schema.go:1206-1291)
schemaByType(i, registry, namespace) ==
  CASE i.j = "null" -> ParseOk(Prim("null"), registry)
    [] i.j = "string" ->
         IF i.str \in PrimitiveTypes THEN ParseOk(Prim(i.str), registry)
         ELSE IF getFullName(i.str, namespace) \in DOMAIN registry
              THEN ParseOk(registry[getFullName(i.str, namespace)], registry)
         ELSE ParseErr("Unknown type name", registry)
    [] i.j = "array" -> parseTypes(i.elems, 1, <<>>, registry, namespace)
    [] i.j = "object" ->
         Then(Get(i, "type"), LAMBDA t :
           CASE t.j = "string" /\ t.str \in PrimitiveTypes -> ParseOk(Prim(t.str), registry)
             [] t.j = "string" /\ t.str = "array" ->
                  Then(schemaByType(Get(i, "items"), registry, namespace), LAMBDA r :
                    IF r.st /= "ok" THEN r ELSE ParseOk(ArraySchema(r.schema), r.registry))
             [] t.j = "string" /\ t.str = "map" ->
                  Then(schemaByType(Get(i, "values"), registry, namespace), LAMBDA r :
                    IF r.st /= "ok" THEN r ELSE ParseOk(MapSchema(r.schema), r.registry))
             [] t.j = "string" /\ t.str = "enum" -> parseEnumSchema(i, registry, namespace)
             [] t.j = "string" /\ t.str = "fixed" -> parseFixedSchema(i, registry, namespace)
             [] t.j = "string" /\ t.str = "record" -> parseRecordSchema(i, registry, namespace)
             [] OTHER -> schemaByType(t, registry, namespace))
    [] OTHER -> ParseErr("ErrInvalidSchema", registry)

\* ParseSchemaWithRegistry (schema.go:1188-1195) of a JSON text
ParseSchemaWithRegistry(rawSchema, schemas) == schemaByType(rawSchema, schemas, "")

\* ParseSchema (schema.go:1181-1183)
ParseSchema(rawSchema) == ParseSchemaWithRegistry(rawSchema, EmptyMap)

\* the schemas whose canonical form is taken: those of the projector model,
\* the references to records, and the named schemas with nothing in them
CanonicalSchemas ==
  PrimitiveSchemas \cup ComplexSchemas \cup RecordsOf(ExecWriterFields)
    \cup {RecursiveSchema(a) : a \in RecordsOf(ExecWriterFields)}
    \cup {ArraySchema(x) : x \in ComplexSchemas} \cup {MapSchema(x) : x \in ComplexSchemas}
    \cup {FixedSchema("F", 0), EnumSchema("E", <<>>), RecordSchema("R", <<>>), UnionSchema(<<>>)}

InitCanonical == InitOn({<<x, x>> : x \in CanonicalSchemas}) /\ impl = "newProjector"

\* s.Canonical() and its MarshalJSON
Canonicalize ==
  /\ canon.pc = "start"
  /\ canon' = [canon EXCEPT !.pc = "canonical", !.json = MarshalJSON(Canonical(readerSchema))]
  /\ UNCHANGED <<impl, readerSchema, writerSchema, compiled, pc, dec, datum, target, f, log,
                 result, calls, fingerprints, parser, recursion, heap>>

\* ParseSchema of the canonical form
ParseCanonical ==
  /\ canon.pc = "canonical"
  /\ LET r == ParseSchema(canon.json) IN
       canon' = [canon EXCEPT !.parsed = r.schema,
                              !.pc = CASE r.st = "ok" -> "parsed"
                                       [] r.st = "err" -> "parseError"
                                       [] OTHER -> "parsePanic"]
  /\ UNCHANGED <<impl, readerSchema, writerSchema, compiled, pc, dec, datum, target, f, log,
                 result, calls, fingerprints, parser, recursion, heap>>

\* the canonical form of the schema that was parsed
Recanonicalize ==
  /\ canon.pc = "parsed"
  /\ canon' = [canon EXCEPT !.pc = "recanonical", !.json2 = MarshalJSON(Canonical(canon.parsed))]
  /\ UNCHANGED <<impl, readerSchema, writerSchema, compiled, pc, dec, datum, target, f, log,
                 result, calls, fingerprints, parser, recursion, heap>>

NextCanonical == Canonicalize \/ ParseCanonical \/ Recanonicalize

SpecCanonical == InitCanonical /\ [][NextCanonical]_vars

(***************************************************************************)
(* Fingerprints, src/schema.go.  SHA-256 is modelled as a function without *)
(* collisions: the fingerprint of a text is the text under a tag.  The     *)
(* precomputed fingerprints of the primitive schemas (schema.go:128-458)   *)
(* are the SHA-256 of their canonical texts "string", "bytes", ...         *)
(***************************************************************************)
Sha256(bytes) == [sha256 |-> bytes]

\* the fields Doc and Properties of a schema node or of a SchemaField
Documented(s, doc, properties) == [doc |-> doc, properties |-> properties] @@ s

\* a fingerprint taken of the whole declaration, not of its canonical form
fingerprintOfDeclaration(s) == Sha256(s)

\* calculateSchemaFingerprint (schema.go:1447-1456)
calculateSchemaFingerprint(s) == Sha256(MarshalJSON(Canonical(s)))

\* Schema.Fingerprint (schema.go:128, 532-541, 653-655, 763, 841, 919, 994,
\* 1083) on a node whose field fingerprint is cached: the fingerprint
\* returned and the field afterwards
RECURSIVE Fingerprint(_, _)
Fingerprint(s, cached) ==
  CASE s.type \in PrimitiveTypes -> [fingerprint |-> calculateSchemaFingerprint(s), cached |-> cached]
    [] s.type = "recursive" -> Fingerprint(s.actual, cached)
    [] cached = Nil ->
         [fingerprint |-> calculateSchemaFingerprint(s), cached |-> calculateSchemaFingerprint(s)]
    [] OTHER -> [fingerprint |-> cached, cached |-> cached]

\* fields that differ in name, type, aliases, default and documentation
FingerprintFields ==
  {SchemaField(n, al, t, d) :
     n \in {"a", "b"}, al \in {<<>>, <<"z">>}, t \in {Prim("int"), Prim("long")},
     d \in {Nil, Int32(0)}}
    \cup {Documented(SchemaField("a", <<>>, Prim("int"), Nil), "hello", <<"order">>)}

\* the schema nodes whose fingerprints are compared
FingerprintSchemas ==
  CanonicalSchemas
    \cup {Documented(x, "hello", <<"custom">>) : x \in ComplexSchemas}
    \cup {RecordSchema(n, <<x>>) : n \in {"R", "Q"}, x \in FingerprintFields}
    \cup {Documented(RecordSchema("R", <<SchemaField("a", <<>>, Prim("int"), Nil)>>), "hello",
                     <<"custom">>),
          RecordSchema("R", <<SchemaField("b", <<>>, Prim("int"), Nil),
                              SchemaField("a", <<>>, Prim("int"), Nil)>>),
          EnumSchema("D", <<"x", "y">>), FixedSchema("G", 1),
          UnionSchema(<<Prim("string"), Prim("int")>>)}

InitFingerprint == InitOn(FingerprintSchemas \X FingerprintSchemas) /\ impl = "newProjector"

\* one call of Fingerprint on node n
CallFingerprint(n) ==
  /\ Len(fingerprints[n].returned) < MaxFingerprintCalls
  /\ fingerprints' =
       [fingerprints EXCEPT ![n] =
          Then(Fingerprint(IF n = 1 THEN readerSchema ELSE writerSchema, fingerprints[n].cached),
               LAMBDA r : [cached |-> r.cached,
                           returned |-> Append(fingerprints[n].returned, r.fingerprint)])]
  /\ UNCHANGED <<impl, readerSchema, writerSchema, compiled, pc, dec, datum, target, f, log,
                 result, calls, canon, parser, recursion, heap>>

NextFingerprint == \E n \in {1, 2} : CallFingerprint(n)

SpecFingerprint == InitFingerprint /\ [][NextFingerprint]_vars

(***************************************************************************)
(* Parsing with a registry, src/schema.go.                                 *)
(***************************************************************************)
\* the text of a named schema: type, name, namespace if any, and the rest
NamedText(kind, name, namespace, rest) ==
  JObject(<<Member("type", JString(kind)), Member("name", JString(name))>>
            \o (IF namespace = "" THEN <<>> ELSE <<Member("namespace", JString(namespace))>>)
            \o rest)

EnumText(name, namespace) ==
  NamedText("enum", name, namespace, <<Member("symbols", JArray(<<JString("x")>>))>>)

FixedText(name, namespace) == NamedText("fixed", name, namespace, <<Member("size", JNumber(1))>>)

\* a record whose fields f1, f2, ... have the given types
RecordText(name, namespace, types) ==
  NamedText("record", name, namespace,
            <<Member("fields",
                     JArray([i \in DOMAIN types |->
                               JObject(<<Member("name", JString("f" \o ToString(i))),
                                         Member("type", types[i])>>)]))>>)

ArrayText(items) == JObject(<<Member("type", JString("array")), Member("items", items)>>)

\* the texts given to the parser: primitives, references by simple and by
\* full name, named schemas with and without a namespace of their own,
\* records that enclose them, and unions
SchemaTexts ==
  {JString(n) : n \in {"int", "E", "a.E", "F", "a.F", "R", "a.R", "Q"}}
    \cup {EnumText("E", ns) : ns \in {"", "a"}}
    \cup {FixedText("F", ns) : ns \in {"", "a"}}
    \cup {RecordText("R", ns, <<t>>) :
            ns \in {"", "a"},
            t \in {JString("int"), JString("R"), JString("Q"), EnumText("E", ""),
                   EnumText("E", "b"), FixedText("F", ""),
                   RecordText("Q", "", <<JString("int")>>)}}
    \cup {RecordText("R", "", <<EnumText("E", ""), JString("Q")>>),
          RecordText("R", "", <<EnumText("E", ""), JString("E")>>)}
    \cup {JArray(ts) :
            ts \in {<<JString("null"), JString("int")>>, <<JString("int"), JString("int")>>,
                    <<JString("null"), JArray(<<JString("int"), JString("string")>>)>>,
                    <<ArrayText(JString("int")), ArrayText(JString("long"))>>,
                    <<EnumText("E", ""), JString("E")>>,
                    <<JString("null"), EnumText("E", "a")>>}}

InitParse ==
  InitOn({<<Prim("null"), Prim("null")>>}) /\ impl = "newProjector"

\* ParseSchemaWithRegistry(text, registry) with the registry the caller keeps
ParseText ==
  /\ Len(parser.calls) < MaxParses
  /\ \E text \in SchemaTexts :
       parser' =
         Then(ParseSchemaWithRegistry(text, parser.registry), LAMBDA r :
           [registry |-> r.registry,
            calls |-> Append(parser.calls,
                             [text |-> text, before |-> parser.registry, st |-> r.st,
                              schema |-> r.schema, after |-> r.registry])])
  /\ UNCHANGED <<impl, readerSchema, writerSchema, compiled, pc, dec, datum, target, f, log,
                 result, calls, canon, fingerprints, recursion, heap>>

NextParse == ParseText

SpecParse == InitParse /\ [][NextParse]_vars

(***************************************************************************)
(* Schemas that refer to themselves.  The parser binds a reference to the  *)
(* record that encloses it, so the schema is a cycle of pointers; the      *)
(* model writes the back edge as Pointer(name).  A call of newProjector or *)
(* of Canonical that follows the back edge is the same call on the same    *)
(* record again: every such call puts one more frame on the stack of the   *)
(* goroutine, which has room for MaxStack of them.                         *)
(***************************************************************************)
\* the texts of records that do and do not refer to themselves
RecursiveTexts ==
  {RecordText("R", "", ts) :
     ts \in {<<JString("R")>>, <<JString("int"), JArray(<<JString("null"), JString("R")>>)>>,
             <<ArrayText(JString("R"))>>, <<JString("int")>>, <<JString("string")>>,
             <<JString("int"), JString("long")>>,
             <<EnumText("E", "")>>, <<RecordText("Q", "", <<JString("int")>>)>>}}
    \cup {JString("int"), ArrayText(JString("int"))}

ParsedSchemas == {ParseSchema(t).schema : t \in RecursiveTexts}

InitRecursive == InitOn(ParsedSchemas \X ParsedSchemas) /\ impl = "newProjector"

\* a nested call is pending in a canonical form
RECURSIVE HasCall(_)
HasCall(c) ==
  \/ c.Type = "call"
  \/ \E i \in DOMAIN c.Fields : HasCall(c.Fields[i].FieldType)
  \/ c.Items /= Nil /\ HasCall(c.Items)
  \/ c.Values /= Nil /\ HasCall(c.Values)
  \/ \E i \in DOMAIN c.Types : HasCall(c.Types[i])

\* whether the operation, run on the schemas of the behaviour, calls itself
\* on the enclosing record before it returns
CallsItself(op) ==
  IF op = "newProjector" THEN Compile(impl, readerSchema, writerSchema).st = "call"
  ELSE HasCall(Canonical(readerSchema))

\* NewDatumProjector(readerSchema, writerSchema) or readerSchema.Canonical()
\* is called
CallOperation(op) ==
  /\ recursion.pc = "start"
  /\ recursion' = IF CallsItself(op) THEN [op |-> op, pc |-> "running", depth |-> 1]
                  ELSE [op |-> op, pc |-> "returned", depth |-> 0]
  /\ UNCHANGED <<impl, readerSchema, writerSchema, compiled, pc, dec, datum, target, f, log,
                 result, calls, canon, fingerprints, parser, heap>>

\* the nested call runs: it is the call on the same schemas again, and
\* comes to the same reference
NestedCall ==
  /\ recursion.pc = "running"
  /\ recursion.depth < MaxStack
  /\ CallsItself(recursion.op)
  /\ recursion' = [recursion EXCEPT !.depth = recursion.depth + 1]
  /\ UNCHANGED <<impl, readerSchema, writerSchema, compiled, pc, dec, datum, target, f, log,
                 result, calls, canon, fingerprints, parser, heap>>

\* no room for one more frame: the Go runtime ends the program with
\* "fatal error: stack overflow"
StackOverflow ==
  /\ recursion.pc = "running"
  /\ recursion.depth = MaxStack
  /\ recursion' = [recursion EXCEPT !.pc = "stackOverflow"]
  /\ UNCHANGED <<impl, readerSchema, writerSchema, compiled, pc, dec, datum, target, f, log,
                 result, calls, canon, fingerprints, parser, heap>>

NextRecursive ==
  \/ \E op \in {"newProjector", "Canonical"} : CallOperation(op)
  \/ NestedCall
  \/ StackOverflow

\* a call that can take a step takes it
SpecRecursive == InitRecursive /\ [][NextRecursive]_vars /\ WF_vars(NextRecursive)

(***************************************************************************)
(* Defaults and the memory they share.  A Go slice is a header that points *)
(* at a backing array: reflect.MakeSlice and the JSON decoder each make    *)
(* one array, and every copy of the header (reflect.Value.Interface,       *)
(* reflect.Value.Set, GenericRecord.Set) points at the same array.  The    *)
(* model keeps the arrays in heap.arrays and writes a header as a value    *)
(* with the field addr.                                                    *)
(***************************************************************************)
IsSlice(x) == x /= Nil /\ "elems" \in DOMAIN x

SliceHeader(x, a) == [k |-> x.k, addr |-> a]

\* the value a caller sees through x
Load(x) ==
  IF x /= Nil /\ "addr" \in DOMAIN x THEN [k |-> x.k, elems |-> heap.arrays[x.addr]] ELSE x

\* the slices among the defaults of record projector p from name j of names
\* on, each put in the heap once: defaultUnwrapperMap[n] is
\* defaultValue.Interface() in part_002:919-921, the same slice, and is
\* readerField.Default in datum_projector.go:241, the slice of the schema
RECURSIVE allocDefaults(_, _, _, _)
allocDefaults(p, names, j, arrays) ==
  IF j > Len(names) THEN [proj |-> p, arrays |-> arrays]
  ELSE LET n == names[j]
           d == p.defaultIndexMap[n]
           inUnwrapper == n \in DOMAIN p.defaultUnwrapperMap
           u == IF inUnwrapper THEN p.defaultUnwrapperMap[n] ELSE Nil
           same == inUnwrapper /\ u = d.v
           a1 == Len(arrays) + 1
           withIndex == IF IsSlice(d.v) THEN Append(arrays, d.v.elems) ELSE arrays
           a2 == IF same THEN a1 ELSE Len(withIndex) + 1
           withBoth == IF IsSlice(u) /\ ~same THEN Append(withIndex, u.elems) ELSE withIndex
       IN allocDefaults(
            [p EXCEPT !.defaultIndexMap[n] =
                        IF IsSlice(d.v) THEN ValueOf(SliceHeader(d.v, a1)) ELSE d,
                      !.defaultUnwrapperMap =
                        IF IsSlice(u) THEN MapSet(p.defaultUnwrapperMap, n, SliceHeader(u, a2))
                        ELSE p.defaultUnwrapperMap],
            names, j + 1, withBoth)

DefaultReaderFields ==
  {SchemaField("a", <<>>, Prim("int"), Nil),
   SchemaField("b", <<>>, Prim("int"), Int32(0)),
   SchemaField("c", <<>>, ArraySchema(Prim("long")), JsonArray),
   SchemaField("c", <<>>, ArraySchema(Prim("long")), Slice(<<Float64(1, "int"), Float64(0, "int")>>)),
   SchemaField("c", <<>>, Prim("int"), Int32(1))}

DefaultWriterFields ==
  {SchemaField("a", <<>>, Prim("int"), Nil), SchemaField("b", <<>>, Prim("int"), Nil)}

DefaultPairs == RecordsOf(DefaultReaderFields) \X RecordsOf(DefaultWriterFields)

DefaultTargets == {GenericTarget, StructTarget({"A", "B", "C"}), StructTarget({"a", "c"})}

InitDefaults == InitOn(DefaultPairs)

\* NewDatumProjector(readerSchema, writerSchema), with the arrays it makes
CompileDefaults ==
  /\ heap.pc = "start"
  /\ LET c == Compile(impl, readerSchema, writerSchema) IN
       IF c.st = "ok" /\ c.proj.p = "record"
       THEN LET al == allocDefaults(c.proj, SeqOf(DOMAIN c.proj.defaultIndexMap), 1, <<>>) IN
            /\ compiled' = [c EXCEPT !.proj = al.proj]
            /\ heap' = [heap EXCEPT !.pc = "compiled", !.arrays = al.arrays]
       ELSE /\ compiled' = c
            /\ heap' = [heap EXCEPT !.pc = "failed"]
  /\ UNCHANGED <<impl, readerSchema, writerSchema, pc, dec, datum, target, f, log, result,
                 calls, canon, fingerprints, parser, recursion>>

\* the fields of tgt that a Read writes a default to
DefaultFields(tgt) ==
  {IF tgt.kind = "generic" THEN d ELSE FieldByName(tgt, d) :
     d \in applyDefaults(impl, compiled.proj, tgt).written}

\* DatumProjector.Read(target, dec) on a fresh target and a decoder of its
\* own: the writer fields, then the defaults
ReadDefaults ==
  /\ heap.pc = "compiled"
  /\ Len(heap.targets) < MaxTargets
  /\ \E tgt \in DefaultTargets, v \in Values(writerSchema) :
       LET r == recordFields(impl, compiled.proj, tgt, 1, Encode(writerSchema, v), 1) IN
         /\ r.st = "ok"
         /\ heap' = [heap EXCEPT !.targets = Append(heap.targets, r.tgt)]
  /\ UNCHANGED <<impl, readerSchema, writerSchema, compiled, pc, dec, datum, target, f, log,
                 result, calls, canon, fingerprints, parser, recursion>>

\* the caller modifies a default it received in target i: target.C[idx] = 9
\* for a slice, target.C = 9 for a number
ModifyDefault ==
  /\ heap.pc = "compiled"
  /\ \E i \in DOMAIN heap.targets :
       \E g \in DefaultFields(heap.targets[i]) :
         LET x == heap.targets[i].fields[g] IN
           /\ x /= Nil
           /\ <<i, g>> \notin heap.touched
           /\ IF "addr" \in DOMAIN x
              THEN \E idx \in DOMAIN heap.arrays[x.addr] :
                     heap' = [heap EXCEPT !.arrays[x.addr][idx] = [@ EXCEPT !.i = 9],
                                          !.touched = @ \cup {<<i, g>>}]
              ELSE heap' = [heap EXCEPT !.targets[i].fields[g] = [@ EXCEPT !.i = 9],
                                        !.touched = @ \cup {<<i, g>>}]
  /\ UNCHANGED <<impl, readerSchema, writerSchema, compiled, pc, dec, datum, target, f, log,
                 result, calls, canon, fingerprints, parser, recursion>>

NextDefaults == CompileDefaults \/ ReadDefaults \/ ModifyDefault

SpecDefaults == InitDefaults /\ [][NextDefaults]_vars

(***************************************************************************)
(* Properties.                                                             *)
(***************************************************************************)
\* the reader fields whose name is that of writer field w
NameMatches(w) ==
  {j \in DOMAIN readerSchema.fields :
     readerSchema.fields[j].name = writerSchema.fields[w].name}

\* the reader fields having the name of writer field w among their aliases
AliasMatches(w) ==
  {j \in DOMAIN readerSchema.fields :
     \E a \in DOMAIN readerSchema.fields[j].aliases :
       readerSchema.fields[j].aliases[a] = writerSchema.fields[w].name}

\* the reader field the specification gives writer field w, or 0
SpecifiedMatch(w) ==
  IF NameMatches(w) /= {} THEN Min(NameMatches(w))
  ELSE IF AliasMatches(w) /= {} THEN Min(AliasMatches(w))
  ELSE 0

BothRecords == readerSchema.type = "record" /\ writerSchema.type = "record"

\* C1: in a compiled record projector every writer field is projected into
\* the first reader field of its name and, only when no reader field has its
\* name, into the first reader field having its name as an alias; the child
\* projector is compiled for the types of the two fields
C1_NameMatchBeforeAlias ==
  (pc = "compiled" /\ BothRecords) =>
    \A w \in DOMAIN writerSchema.fields :
      /\ compiled.proj.projectNameMap[w] =
           IF SpecifiedMatch(w) = 0 THEN "" ELSE readerSchema.fields[SpecifiedMatch(w)].name
      /\ compiled.proj.projectIndexMap[w] =
           Compile(impl,
                   IF SpecifiedMatch(w) = 0 THEN writerSchema.fields[w].ftype
                   ELSE readerSchema.fields[SpecifiedMatch(w)].ftype,
                   writerSchema.fields[w].ftype).proj

\* a compiled pair of records where a writer field has its name as the alias
\* of one reader field and as the name of a later one, and got the later one
C1_Witness ==
  /\ pc = "compiled"
  /\ BothRecords
  /\ \E w \in DOMAIN writerSchema.fields :
       /\ NameMatches(w) /= {}
       /\ AliasMatches(w) /= {}
       /\ Min(AliasMatches(w)) < Min(NameMatches(w))
       /\ compiled.proj.projectNameMap[w] = readerSchema.fields[Min(NameMatches(w))].name

\* the promotions of the specification, as <<writer, reader>>
Promotions ==
  {<<"int", "long">>, <<"int", "float">>, <<"int", "double">>,
   <<"long", "float">>, <<"long", "double">>, <<"float", "double">>,
   <<"string", "bytes">>, <<"bytes", "string">>}

BothPrimitive == readerSchema.type \in PrimitiveTypes /\ writerSchema.type \in PrimitiveTypes

\* C5: a pair of primitive schemas compiles if and only if the two are the
\* same or the writer type promotes to the reader type
C5_PrimitivePairs ==
  (pc /= "start" /\ BothPrimitive) =>
    (pc = "compiled" <=>
       \/ readerSchema.type = writerSchema.type
       \/ <<writerSchema.type, readerSchema.type>> \in Promotions)

\* a promotion that compiled
C5_Witness ==
  /\ pc = "compiled"
  /\ writerSchema = Prim("int")
  /\ readerSchema = Prim("double")
  /\ compiled.proj = defaultProjector("ReadInt.float64")

\* the decoder stands right behind the writer datum its buffer began with
ConsumedDatum == dec.pos = Len(dec.buf) - Len(datum.tail) + 1

\* the entries of the log about writer field w
Decodes(w) == {i \in DOMAIN log : log[i].e = "decode" /\ log[i].w = w}

\* writer field w has nowhere to go: it was deleted from the reader, or the
\* struct target has no field of its reader name
Discarded(w) ==
  \/ compiled.proj.projectNameMap[w] = ""
  \/ target.kind = "struct" /\ FieldByName(target, compiled.proj.projectNameMap[w]) = ""

\* C2: a successful Read of an encoded record leaves the decoder right behind
\* the datum, has decoded every writer field once, and has written no value
\* of a deleted field or of a field the struct target lacks
C2_ConsumesExactlyOneDatum ==
  (pc = "done" /\ datum.known) =>
    /\ ConsumedDatum
    /\ \A w \in DOMAIN writerSchema.fields :
         /\ Cardinality(Decodes(w)) = 1
         /\ Discarded(w) => ~\E i \in DOMAIN log : log[i].e = "set" /\ log[i].w = w

\* C3: during a Read the writer fields are decoded in declaration order, no
\* default is written before the last writer field is decoded, and nothing
\* is decoded or written after a decoding that failed
C3_WriterOrderThenDefaults ==
  \A i \in DOMAIN log : \A j \in DOMAIN log :
    i < j =>
      /\ log[i].w <= log[j].w \/ log[j].e = "default"
      /\ log[i].e = "default" => log[j].e = "default"
      /\ log[j].e = "default" => Decodes(Len(writerSchema.fields)) /= {}
      /\ log[i].st = "ok"

\* reader field j is matched by no writer field, by name or by alias
Unmatched(j) ==
  \A w \in DOMAIN writerSchema.fields :
    /\ writerSchema.fields[w].name /= readerSchema.fields[j].name
    /\ \A a \in DOMAIN readerSchema.fields[j].aliases :
         readerSchema.fields[j].aliases[a] /= writerSchema.fields[w].name

\* C4: compiling a pair of records returns an error when a reader field is
\* matched by no writer field and has no default
C4_MissingFieldIsAnError ==
  (/\ pc /= "start"
   /\ BothRecords
   /\ \E j \in DOMAIN readerSchema.fields :
        Unmatched(j) /\ readerSchema.fields[j].default = Nil)
    => pc = "compileError"

\* C6: the value decoded from an encoded datum of the writer schema is valid
\* under the reader schema
C6_DecodedValueValidUnderReader ==
  (pc = "unwrapped" /\ datum.known) => Validate(readerSchema, result)

\* writer union member j is the reader schema: same type, same name
MemberMatches(j) ==
  /\ writerSchema.types[j].type = readerSchema.type
  /\ GetName(writerSchema.types[j]) = GetName(readerSchema)

WriterUnionOnly == writerSchema.type = "union" /\ readerSchema.type /= "union"

\* C7: a projector compiled for a writer union and a matching reader that is
\* no union has a child for every writer member, compiled against the reader
\* for a matching member and against the member itself otherwise; a datum of
\* a member that does not match is decoded and consumed
C7_OneChildPerWriterMember ==
  /\ (pc = "compiled" /\ WriterUnionOnly) =>
       \A j \in DOMAIN writerSchema.types :
         /\ (j - 1) \in DOMAIN compiled.proj.variants
         /\ compiled.proj.variants[j - 1] =
              Compile(impl,
                      IF MemberMatches(j) THEN readerSchema ELSE writerSchema.types[j],
                      writerSchema.types[j]).proj
  /\ (/\ pc \in {"unwrapped", "unwrapError", "unwrapPanic"}
      /\ WriterUnionOnly
      /\ datum.known
      /\ ~MemberMatches(datum.v.i + 1))
       => pc = "unwrapped" /\ ConsumedDatum

\* C8: NewDatumProjector returns a projector or an error for every pair of
\* schemas: it does not panic
C8_ConstructorNeverPanics == pc /= "compilePanic"

\* C9: Read returns nil or an error for every input: it does not panic
C9_ReadNeverPanics == pc /= "readPanic"

\* C10: a Read during which the decoding of a writer field returned an error
\* returns an error
C10_DecoderErrorsAreReturned ==
  pc = "done" => \A i \in DOMAIN log : log[i].st = "ok"

\* C11: in a compiled record projector no two writer fields are projected
\* into the same reader field
C11_ReaderFieldMatchedOnce ==
  (pc = "compiled" /\ BothRecords) =>
    \A w1 \in DOMAIN writerSchema.fields : \A w2 \in DOMAIN writerSchema.fields :
      (w1 /= w2 /\ compiled.proj.projectNameMap[w1] /= "")
        => compiled.proj.projectNameMap[w1] /= compiled.proj.projectNameMap[w2]

\* the union tag at the start of the decoder's buffer
TagRead == ReadInt(dec.buf, 1)

UnwrapReturned == pc \in {"unwrapped", "unwrapError", "unwrapPanic"}

\* the child projector of writer union member j: compiled against the reader
\* when the reader is no union and the member matches it, else against itself
ExpectedChild(j) ==
  Compile(impl,
          IF WriterUnionOnly /\ MemberMatches(j) THEN readerSchema ELSE writerSchema.types[j],
          writerSchema.types[j]).proj

\* what Unwrap of a writer union returned is what projector p returns when it
\* decodes the bytes behind the tag
ReturnedBy(p) ==
  LET r == Unwrap(impl, p, dec.buf, TagRead.pos) IN
    /\ dec.pos = r.pos
    /\ pc = (CASE r.st = "ok" -> "unwrapped" [] r.st = "err" -> "unwrapError"
               [] OTHER -> "unwrapPanic")
    /\ result = (IF r.st = "ok" THEN r.v ELSE Nil)

\* C12: Unwrap of a writer union returns an error and reads nothing behind
\* the tag when the tag is negative or not less than the number of writer
\* members, and returns what the child of writer member t returns when the
\* tag t is in range
C12_UnionTagSelectsChild ==
  (UnwrapReturned /\ writerSchema.type = "union" /\ TagRead.st = "ok") =>
    IF TagRead.v.i < 0 \/ TagRead.v.i >= Len(writerSchema.types)
    THEN pc = "unwrapError" /\ dec.pos = TagRead.pos
    ELSE ReturnedBy(ExpectedChild(TagRead.v.i + 1))

\* the members of the reader union that match the writer schema: same type,
\* same name
ReaderMembersMatching ==
  {j \in DOMAIN readerSchema.types :
     /\ readerSchema.types[j].type = writerSchema.type
     /\ GetName(readerSchema.types[j]) = GetName(writerSchema)}

ReaderUnionOnly == readerSchema.type = "union" /\ writerSchema.type /= "union"

\* C13: for a reader union and a writer that is no union NewDatumProjector
\* returns what compiling the first reader member that matches the writer
\* against the writer returns, and fails when no reader member matches
C13_FirstMatchingReaderMember ==
  (pc /= "start" /\ ReaderUnionOnly) =>
    IF ReaderMembersMatching /= {}
    THEN compiled = Compile(impl, readerSchema.types[Min(ReaderMembersMatching)], writerSchema)
    ELSE pc /= "compiled"

\* schema s with the references to records, bare or members of a union,
\* replaced by the records they refer to
Concrete(s) ==
  CASE s.type = "recursive" -> s.actual
    [] s.type = "union" ->
         UnionSchema([j \in DOMAIN s.types |->
                        IF s.types[j].type = "recursive" THEN s.types[j].actual ELSE s.types[j]])
    [] OTHER -> s

HasReference == Concrete(readerSchema) /= readerSchema \/ Concrete(writerSchema) /= writerSchema

\* C14: a pair of schemas with a reference to a record on either side, bare
\* or as a member of a union, compiles to what the pair with the records in
\* place of the references compiles to
C14_ReferenceIsTheRecord ==
  (pc /= "start" /\ HasReference) =>
    compiled = Compile(impl, Concrete(readerSchema), Concrete(writerSchema))

\* C15: with reader long and writer long the projector of newProjection
\* decodes an encoded long to the 64-bit value that was encoded
C15_LongRoundTrip ==
  (/\ UnwrapReturned
   /\ impl = "newProjection"
   /\ readerSchema = Prim("long")
   /\ writerSchema = Prim("long")
   /\ datum.known)
    => pc = "unwrapped" /\ result = datum.v /\ ConsumedDatum

\* the writer fields of union type that Read projects into a field of the
\* struct target
UnionFieldsProjected ==
  {w \in DOMAIN writerSchema.fields :
     /\ writerSchema.fields[w].ftype.type = "union"
     /\ FieldByName(target, compiled.proj.projectNameMap[w]) /= ""}

\* C16: after a Read of an encoded record into a struct, the field a writer
\* union was projected into is nil when the datum chose the null branch and
\* holds the value of the datum when it chose another branch, whatever the
\* field held before
C16_UnionIntoPointerField ==
  (pc = "done" /\ target.kind = "struct" /\ datum.known /\ BothRecords) =>
    \A w \in UnionFieldsProjected :
      target.fields[FieldByName(target, compiled.proj.projectNameMap[w])] = datum.v.elems[w].v

\* the field of the struct target that the specification gives reader name n:
\* the field named n, else the field named n with its first letter
\* uppercased, else none
SpecifiedField(n) ==
  IF n \in DOMAIN target.fields THEN n
  ELSE IF Title(n) \in DOMAIN target.fields THEN Title(n)
  ELSE ""

\* where the decoder stands behind the first w fields of the writer datum
PosAfter(w) ==
  1 + Len(encodeFields(SubSeq(writerSchema.fields, 1, w), SubSeq(datum.v.elems, 1, w), 1))

\* the writer fields matched to a reader field
MatchedFields == {w \in DOMAIN writerSchema.fields : compiled.proj.projectNameMap[w] /= ""}

\* C17: during a Read of an encoded record into a struct the value of a
\* matched writer field is written to the field named as the reader field,
\* else to the field of that name with the first letter uppercased; with
\* neither, the datum of the field is consumed, nothing is written and the
\* Read goes on; a default is written to the field found in the same way
C17_TwoStepFieldLookup ==
  (/\ pc \in {"fields", "done", "readError", "readPanic"}
   /\ target.kind = "struct" /\ datum.known /\ BothRecords) =>
    /\ \A w \in MatchedFields :
         LET g == SpecifiedField(compiled.proj.projectNameMap[w]) IN
           /\ (w < f /\ g /= "") =>
                \E i \in DOMAIN log : log[i].e = "set" /\ log[i].w = w /\ log[i].nm = g
           /\ (w < f /\ g = "") =>
                /\ \E i \in DOMAIN log : log[i].w = w /\ log[i].e = "decode"
                /\ \A i \in DOMAIN log : log[i].w = w => log[i].e = "decode"
                /\ (w = f - 1 /\ pc = "fields") => dec.pos = PosAfter(w)
           /\ (w = f /\ g = "") => pc = "fields"
    /\ pc = "done" =>
         \A d \in DOMAIN compiled.proj.defaultIndexMap :
           (SpecifiedField(d) /= "" /\ compiled.proj.defaultIndexMap[d].valid)
             => target.fields[SpecifiedField(d)] = compiled.proj.defaultIndexMap[d].v

\* what the Read of call c returns when no other call runs: [st, tgt, pos]
Alone(c) == recordFields(impl, compiled.proj, calls[c].start, 1, calls[c].buf, 1)

Returned(c) == calls[c].pc \in {"done", "readError", "readPanic"}

\* call c returned what it returns alone
SameAsAlone(c) ==
  /\ calls[c].pc = (CASE Alone(c).st = "ok" -> "done"
                      [] Alone(c).st = "err" -> "readError"
                      [] OTHER -> "readPanic")
  /\ calls[c].target = Alone(c).tgt
  /\ calls[c].pos = Alone(c).pos

BothEnums == readerSchema.type = "enum" /\ writerSchema.type = "enum"

\* the writer index at the start of the decoder's buffer is in range
IndexInRange ==
  TagRead.st = "ok" /\ TagRead.v.i >= 0 /\ TagRead.v.i < Len(writerSchema.symbols)

\* C19: newProjector compiles every pair of enums, and Unwrap of a writer
\* index in range returns the index that the writer's symbol has in the
\* reader's symbols, or an error when the reader has no such symbol
C19_EnumBySymbolName ==
  (pc /= "start" /\ impl = "newProjector" /\ BothEnums) =>
    /\ pc \notin {"compileError", "compilePanic"}
    /\ (UnwrapReturned /\ IndexInRange) =>
         IF writerSchema.symbols[TagRead.v.i + 1] \in Range(readerSchema.symbols)
         THEN /\ pc = "unwrapped"
              /\ dec.pos = TagRead.pos
              /\ \E j \in DOMAIN readerSchema.symbols :
                   /\ readerSchema.symbols[j] = writerSchema.symbols[TagRead.v.i + 1]
                   /\ result = Int32(j - 1)
         ELSE pc = "unwrapError"

\* the writer's first symbol x decoded to its index 1 in the reader's symbols
C19_Witness ==
  /\ impl = "newProjector"
  /\ readerSchema = EnumYX
  /\ writerSchema = EnumXY
  /\ pc = "unwrapped"
  /\ TagRead.v.i = 0
  /\ result = Int32(1)

\* C20: the canonical form of a schema parses, to a schema of the same kind
\* whose canonical form is the same text
C20_CanonicalRoundTrip ==
  /\ canon.pc \notin {"parseError", "parsePanic"}
  /\ canon.pc \in {"parsed", "recanonical"} =>
       canon.parsed.type = (IF readerSchema.type = "recursive" THEN "record"
                            ELSE readerSchema.type)
  /\ canon.pc = "recanonical" => canon.json2 = canon.json

\* what a schema defines: its kind, its full name, its fields' names and
\* types, its symbols, size, items, values and members, with a reference
\* standing for the record it refers to
RECURSIVE Definition(_)
Definition(s) ==
  CASE s.type \in PrimitiveTypes -> [kind |-> s.type]
    [] s.type = "record" ->
         [kind |-> "record", fullName |-> s.name,
          parts |-> [i \in DOMAIN s.fields |->
                       [fieldName |-> s.fields[i].name, of |-> Definition(s.fields[i].ftype)]]]
    [] s.type = "recursive" -> Definition(s.actual)
    [] s.type = "enum" -> [kind |-> "enum", fullName |-> s.name, syms |-> s.symbols]
    [] s.type = "fixed" -> [kind |-> "fixed", fullName |-> s.name, bytes |-> s.size]
    [] s.type = "array" -> [kind |-> "array", of |-> Definition(s.items)]
    [] s.type = "map" -> [kind |-> "map", of |-> Definition(s.values)]
    [] s.type = "union" ->
         [kind |-> "union", parts |-> [i \in DOMAIN s.types |-> Definition(s.types[i])]]

\* every fingerprint returned for the two nodes
ReturnedFingerprints ==
  Range(fingerprints[1].returned) \cup Range(fingerprints[2].returned)

\* C21: schemas that differ only in documentation, aliases, defaults or
\* custom properties have the same canonical text, every call of Fingerprint
\* on either returns one and the same value, and that value is the cached one
C21_AnnotationsLeaveFingerprint ==
  Definition(readerSchema) = Definition(writerSchema) =>
    /\ MarshalJSON(Canonical(readerSchema)) = MarshalJSON(Canonical(writerSchema))
    /\ Cardinality(ReturnedFingerprints) <= 1
    /\ \A n \in {1, 2} :
         fingerprints[n].cached /= Nil => fingerprints[n].cached \in ReturnedFingerprints

\* two nodes that differ in documentation, aliases, default and properties,
\* each asked twice for its fingerprint
C21_Witness ==
  /\ Definition(readerSchema) = Definition(writerSchema)
  /\ readerSchema /= writerSchema
  /\ readerSchema.type = "record"
  /\ Len(fingerprints[1].returned) = 2
  /\ Len(fingerprints[2].returned) = 2

\* C22: schemas that differ in what they define (kind, full name, field
\* names or types, symbols or their order, size, item type, value type,
\* order of union members) have different canonical texts and never return
\* the same fingerprint; in particular a map and an array never share one
C22_DefinitionsDifferInCanonical ==
  Definition(readerSchema) /= Definition(writerSchema) =>
    /\ MarshalJSON(Canonical(readerSchema)) /= MarshalJSON(Canonical(writerSchema))
    /\ Range(fingerprints[1].returned) \cap Range(fingerprints[2].returned) = {}

\* a map and an array of the same type, both asked for their fingerprint
C22_Witness ==
  /\ readerSchema.type = "map"
  /\ writerSchema.type = "array"
  /\ readerSchema.values = writerSchema.items
  /\ Len(fingerprints[1].returned) > 0
  /\ Len(fingerprints[2].returned) > 0

\* the full names a schema text declares, each built from the namespace the
\* definition gives itself, or else from the enclosing one; the namespace of
\* a record encloses the types of its fields
RECURSIVE DeclaredNames(_, _)
DeclaredNames(t, enclosing) ==
  CASE t.j = "array" -> UNION {DeclaredNames(t.elems[i], enclosing) : i \in DOMAIN t.elems}
    [] t.j = "object" /\ Get(t, "type") \in {JString("enum"), JString("fixed")} ->
         {getFullName(Get(t, "name").str, setOptionalField(enclosing, t, "namespace"))}
    [] t.j = "object" /\ Get(t, "type") = JString("record") ->
         {getFullName(Get(t, "name").str, setOptionalField(enclosing, t, "namespace"))}
           \cup UNION {DeclaredNames(Get(Get(t, "fields").elems[i], "type"),
                                     setOptionalField(enclosing, t, "namespace")) :
                         i \in DOMAIN Get(t, "fields").elems}
    [] t.j = "object" /\ Get(t, "type") = JString("array") ->
         DeclaredNames(Get(t, "items"), enclosing)
    [] OTHER -> {}

\* C23: after a parse that succeeded, the registry holds every full name the
\* text declares, and a later parse of that name as a reference, with the
\* same registry, returns the registered definition
C23_NamedTypesAreRegistered ==
  \A i \in DOMAIN parser.calls :
    parser.calls[i].st = "ok" =>
      \A n \in DeclaredNames(parser.calls[i].text, "") :
        /\ n \in DOMAIN parser.calls[i].after
        /\ \A k \in DOMAIN parser.calls :
             k > i /\ parser.calls[k].text = JString(n) =>
               /\ parser.calls[k].st = "ok"
               /\ parser.calls[k].schema = parser.calls[i].after[n]

\* the type category of a union member and, for a named type, its name
MemberKey(s) ==
  IF s.type \in {"record", "enum", "fixed"} THEN <<s.type, s.name>>
  ELSE IF s.type = "recursive" THEN <<"record", s.actual.name>>
  ELSE <<s.type, "">>

\* a union with a union among its members, or with two members of one
\* category and name
BadUnion(s) ==
  /\ s.type = "union"
  /\ \/ \E i \in DOMAIN s.types : s.types[i].type = "union"
     \/ \E i, k \in DOMAIN s.types : i /= k /\ MemberKey(s.types[i]) = MemberKey(s.types[k])

RECURSIVE HasBadUnion(_)
HasBadUnion(s) ==
  \/ BadUnion(s)
  \/ s.type = "union" /\ \E i \in DOMAIN s.types : HasBadUnion(s.types[i])
  \/ s.type = "record" /\ \E i \in DOMAIN s.fields : HasBadUnion(s.fields[i].ftype)
  \/ s.type = "array" /\ HasBadUnion(s.items)
  \/ s.type = "map" /\ HasBadUnion(s.values)

\* C24: the parser never returns a schema that holds a nested or an
\* ambiguous union: parsing such a text ends in an error
C24_BadUnionsRejected ==
  \A i \in DOMAIN parser.calls :
    parser.calls[i].st = "ok" => ~HasBadUnion(parser.calls[i].schema)

\* C30: a call of ParseSchemaWithRegistry that returns an error leaves the
\* caller's registry as it was before the call
C30_FailedParseLeavesRegistry ==
  \A i \in DOMAIN parser.calls :
    parser.calls[i].st = "err" => parser.calls[i].after = parser.calls[i].before

\* what the item projector returns for item x of the writer, decoded alone
ProjectedItem(x) ==
  Unwrap(impl, compiled.proj.itemProjector, Encode(writerSchema.items, x), 1).v

\* C25: Unwrap of an array written in one or more blocks returns all items
\* in wire order: as many as the block counts add up to, the p-th being the
\* p-th item decoded
C25_ArrayBlocksInWireOrder ==
  (pc = "unwrapped" /\ datum.known /\ compiled.proj.p = "array") =>
    /\ Len(result.elems) = Len(datum.v.elems)
    /\ \A p \in DOMAIN datum.v.elems : result.elems[p] = ProjectedItem(datum.v.elems[p])

\* C26: a compiled record projector refers to the reader record schema it was
\* compiled for, and a GenericRecord its Unwrap creates has that schema
C26_RecordProjectorKeepsReaderSchema ==
  (compiled.st = "ok" /\ compiled.proj.p = "record") =>
    /\ compiled.proj.readerRecordSchema = readerSchema
    /\ pc = "unwrapped" => result.schema = readerSchema

\* C27: compiling a projector for two parsed schemas, a record that refers
\* to itself among them, comes to an end by returning a projector or an
\* error: the calls it nests never use up the stack
C27_CompileTerminates ==
  recursion.op = "newProjector" => recursion.pc /= "stackOverflow"

\* C28: Canonical(), and Fingerprint() which calls it, come to an end on
\* every parsed schema, a record that refers to itself among them: the
\* reference back to the record is written by name, so no call of Canonical
\* is nested in a call on the same record and the stack is never used up
C28_CanonicalTerminates ==
  recursion.op = "Canonical" =>
    /\ recursion.pc /= "stackOverflow"
    /\ ~HasCall(Canonical(readerSchema))

\* the defaults of the projector as NewDatumProjector computed them
ComputedDefaults == Compile(impl, readerSchema, writerSchema).proj

\* the default that a Read writes to field g of target tgt
ComputedDefault(tgt, g) ==
  IF tgt.kind = "generic" THEN ComputedDefaults.defaultUnwrapperMap[g]
  ELSE ComputedDefaults.defaultIndexMap[
         CHOOSE d \in DOMAIN ComputedDefaults.defaultIndexMap : FieldByName(tgt, d) = g].v

\* C29: the defaults that separate Reads of one projector deliver are
\* independent: when a caller modifies a default inside one target, the
\* defaults the projector stores and the defaults in the other targets keep
\* the value that was computed from the schema
C29_DefaultsAreIndependent ==
  heap.pc = "compiled" =>
    /\ \A d \in DOMAIN compiled.proj.defaultIndexMap :
         Load(compiled.proj.defaultIndexMap[d].v) = ComputedDefaults.defaultIndexMap[d].v
    /\ \A d \in DOMAIN compiled.proj.defaultUnwrapperMap :
         Load(compiled.proj.defaultUnwrapperMap[d]) = ComputedDefaults.defaultUnwrapperMap[d]
    /\ \A i \in DOMAIN heap.targets :
         \A g \in DefaultFields(heap.targets[i]) :
           <<i, g>> \notin heap.touched =>
             Load(heap.targets[i].fields[g]) = ComputedDefault(heap.targets[i], g)

\* a default that is a number is independent: modifying it in one target
\* changes no other target
NumberDefaultsAreIndependent ==
  heap.pc = "compiled" =>
    \A i \in DOMAIN heap.targets :
      \A g \in DefaultFields(heap.targets[i]) :
        (<<i, g>> \notin heap.touched /\ ~IsSlice(ComputedDefault(heap.targets[i], g))) =>
          heap.targets[i].fields[g] = ComputedDefault(heap.targets[i], g)

====
